---- MODULE Spec2Model ----
(***************************************************************************)
(* The asynchronous chunk-embedding ingestion pipeline of                  *)
(* Multi-Tenant-Document-Intelligence: the Kafka consumer of               *)
(* app/workers/v2/consumer.py (deserialisation, dispatch, retry topic,     *)
(* dead-letter topic, manual offset commit) driving the TaskProcessor of   *)
(* app/workers/v2/tasks.py (job row, embedding, vector store, chunk row),  *)
(* and the first worker of app/workers (auto-committing consumer).         *)
(*                                                                         *)
(* Every worker process is a state machine whose position is pc[w]; each   *)
(* awaited call on a shared system (broker, database, vector store) is one *)
(* step, and the outcome of a call that can fail is a nondeterministic     *)
(* choice between its normal return and its exception.                     *)
(***************************************************************************)
EXTENDS Integers, Sequences, FiniteSets, TLC

\* ------------------------------------------------------------------------
\* Bounds of the model
\* ------------------------------------------------------------------------
\* messages that reach the ingestion topic
MaxLog == 1
\* failures of the environment over the whole run: a call on the broker,
\* the database, the embedding generator or the vector store that raises,
\* a killed worker process, a rebalance of the consumer group
MaxFaults == 2
\* chunks of the document of one upload request
MaxChunks == 2
\* sentences of a text that is chunked
MaxSentences == 3
\* whitespace characters between two sentences
MaxGap == 2
\* windows followed in a fixed-size loop that does not advance
MaxStuckWindows == 3
MaxMonitored == 2
\* seconds the clock of the rate limiter advances
MaxClock == 3
\* requests that reach the rate limiter
MaxArrivals == 3
\* window_seconds of the rate limiter, in clock seconds
WindowSeconds == 2
\* chunks of the previous version of a document that is updated
MaxOldChunks == 2

\* ------------------------------------------------------------------------
\* Program constants
\* ------------------------------------------------------------------------
\* consumer.py:198  `if attempt <= 3:  # Max 3 retries`
MaxRetryAttempt == 3
\* producer.py:64   `"attempt": 1  # First attempt`
FirstAttempt == 1
\* tasks.py:58      `job.error_message = error_message[:500]`
MaxErrorLength == 500
\* tasks.py:82      len("Empty embedding generated")
EmptyEmbeddingError == 25
\* producer.py:47   `stop=stop_after_attempt(3)`
MaxPublishAttempts == 3
\* kafka_config.py:20 `stop=stop_after_attempt(3)`
MaxEnsureAttempts == 3
\* chunking.py:17,41 `chunk_size: int = 100, overlap: int = 20`
DefaultChunkSize == 100
DefaultOverlap == 20
\* config.py:13  UPLOADS_PER_MINUTE
UPLOADS_PER_MINUTE == 2

Workers == {"w1", "w2"}
Jobs == {1}
NoJob == 0
\* the chunks an upload request can create, each with the job of its number
Chunks == 1..MaxChunks
JobIds == Jobs \cup Chunks
\* len(sentence) of the sentences of a text
SentenceLengths == {8, 12, 18, 90}
\* chunk_size and overlap a strategy is called with
ChunkParams ==
    { << DefaultChunkSize, DefaultOverlap >>, << 20, 5 >>, << 20, 0 >>,
      << 5, 5 >>, << 5, 8 >> }

TOPIC_INGESTION == "ingestion"
TOPIC_RETRY == "retry"
TOPIC_DLQ == "dlq"
ConsumedTopics == {TOPIC_INGESTION, TOPIC_RETRY}

\* consumer.py:60
required_fields == {"job_id", "tenant_id", "chunk_id", "chunk_content"}
\* tasks.py:114
worker_required_fields == required_fields \cup {"document_id"}

VARIABLES
    log,                \* log[t]: the messages of topic t, oldest first
    committed,          \* committed[t]: the group's committed offset on t
    topics,             \* the topics the consumers subscribe to
    generation,         \* the worker that is deployed: "v1" or "v2"
    owner,              \* the group member that owns the partitions
    position,           \* position[w][t]: next offset w fetches from t
    pc,                 \* pc[w]: where worker w is in its code
    cur,                \* cur[w]: msg.value of the message w handles
    disp,               \* disp[w]: disposition reached for that message
    outcome,            \* outcome[w]: what process_func did with it
    didCommit,          \* didCommit[w]: commit() succeeded for it
    processed_messages, \* KafkaConsumer._processed_messages
    failed_messages,    \* KafkaConsumer._failed_messages
    jobStatus,          \* EmbeddingJob.status by job ("absent": no row)
    jobError,           \* length of EmbeddingJob.error_message (0: null)
    embedding_id,       \* Chunk.embedding_id is set (chunk of job j)
    vectors,            \* the entries of the vector store, oldest first
    processed_count,    \* TaskProcessor._processed_count
    failed_count,       \* TaskProcessor._failed_count
    faults,             \* failures of the environment so far
    producer,           \* the KafkaProducer object and its last publish_job
    upload,             \* the upload request: its position and response
    chunker,            \* a call of a chunking strategy and what it built
    health,             \* health[w]: HealthMonitor of worker w, last report
    process,            \* process[w]: the consumer and the shutdown flag
    limiter,            \* the clock and the sorted set of one rate-limit key
    search,             \* a search_chunks call, the index and what it returns
    document            \* an update_document request and the old chunks

vars == << log, committed, topics, generation, owner, position, pc, cur,
           disp, outcome, didCommit, processed_messages, failed_messages, jobStatus,
           jobError, embedding_id, vectors, processed_count, failed_count,
           faults, producer, upload, chunker, health, process, limiter,
           search, document >>

\* the API process: its producer and the request it serves
api == << producer, upload >>

\* the other services of the API process: the rate limiter, the search
\* service and the document routes
services == << limiter, search, document >>

\* the IngestionWorker objects around the consumer loop
workers == << health, process >>

\* what is fixed when the worker is deployed
deployment == << topics, generation >>

\* ------------------------------------------------------------------------
\* Messages on the wire
\* ------------------------------------------------------------------------
\* A payload is described by what json.loads makes of it: its shape, the
\* keys it has (for a list: the field names it contains as elements), the
\* kind of value under chunk_content, the job it names, and the attempt
\* counter of its _metadata (0: no _metadata).
WireMsg(shape, keys, content, job, attempt, lastErr) ==
    [shape |-> shape, keys |-> keys, content |-> content, job |-> job,
     attempt |-> attempt, last_error |-> lastErr]

\* uploads.py:112-122 wrapped by producer.py:59-66
JobMessage(j) ==
    WireMsg("object", worker_required_fields, "text", j, FirstAttempt, FALSE)

\* Payloads that can arrive on the ingestion topic from anywhere else.
ForeignPayloads ==
    { WireMsg("garbage", {}, "none", NoJob, 0, FALSE),
      WireMsg("list", required_fields, "none", NoJob, 0, FALSE),
      WireMsg("number", {}, "none", NoJob, 0, FALSE) }
    \cup UNION { {
      WireMsg("object", worker_required_fields \ {"chunk_content"}, "none", j, 0, FALSE),
      WireMsg("object", worker_required_fields \ {"document_id"}, "text", j, 0, FALSE),
      WireMsg("object", worker_required_fields, "empty", j, 0, FALSE),
      WireMsg("object", worker_required_fields, "unsized", j, FirstAttempt, FALSE)
      } : j \in Jobs }

\* msg.value: what the deserializer hands to the consumer loop.
Value(isdict, invalid, keys, content, job, attempt, raw) ==
    [isdict |-> isdict, invalid |-> invalid, keys |-> keys,
     content |-> content, job |-> job, attempt |-> attempt, raw |-> raw]

NoValue == Value(FALSE, FALSE, {}, "none", NoJob, 0, FALSE)

\* consumer.py:75-99: the payload could not be parsed or checked
InvalidUnparsed == Value(TRUE, TRUE, {}, "none", NoJob, 0, TRUE)

\* KafkaConsumer._deserialize_message
deserialize_message(m) ==
    CASE m.shape = "garbage" -> InvalidUnparsed
      [] m.shape = "number" -> InvalidUnparsed
      [] m.shape = "list" ->
            IF required_fields \ m.keys # {}
            THEN InvalidUnparsed
            ELSE Value(FALSE, FALSE, m.keys, "none", NoJob, 0, FALSE)
      [] OTHER ->
            IF required_fields \ m.keys # {}
            THEN Value(TRUE, TRUE, m.keys, m.content,
                       IF "job_id" \in m.keys THEN m.job ELSE NoJob,
                       m.attempt, TRUE)
            ELSE Value(TRUE, FALSE, m.keys, m.content, m.job, m.attempt, FALSE)

\* consumer.py:194  msg.value.get('_metadata', {}).get('attempt', 1)
AttemptOf(v) == IF v.attempt = 0 THEN 1 ELSE v.attempt

\* retry_data with the attempt counter started again
retry_data_reset(v) ==
    WireMsg("object", v.keys, v.content, v.job, FirstAttempt + 1, TRUE)

\* consumer.py:200-208  retry_data
retry_data(v) ==
    WireMsg("object", v.keys, v.content, v.job, AttemptOf(v) + 1, TRUE)

\* consumer.py:138-145 and 230-234: the dead-letter entry
dlq_data(v, reason) ==
    [job |-> v.job, keys |-> v.keys, content |-> v.content,
     attempt |-> AttemptOf(v), dlq_reason |-> reason, dlq_timestamp |-> TRUE,
     raw |-> v.raw]

\* What one call of KafkaProducer.publish_job did: how it ended, the send
\* attempts it made, whether the broker acknowledged the last of them, the
\* copies of the message it left on the topic, and whether the producer
\* was connected when it was called.
Call(result, attempts, acked, copies, connected) ==
    [result |-> result, attempts |-> attempts, acked |-> acked,
     copies |-> copies, connected |-> connected]

NoCall == Call("none", 0, FALSE, 0, FALSE)

\* A text, as the chunking strategies see it: the lengths of its sentences
\* in order, the whitespace before the first, between two neighbours (none
\* in "one.Two") and after the last.
Text(lead, sents, gap, trail) ==
    [lead |-> lead, sents |-> sents, gap |-> gap, trail |-> trail]

\* the tenants of the deployment
Tenants == {"A", "B"}

\* the rate-limited actions (uploads.py:28, search.py:75)
LimitedActions == {"uploads"}

\* rate_limiter.py:27  key = f"rate_limit:{tenant_id}:{action}"
RateLimitKey(tenant_id, action) == << "rate_limit", tenant_id, action >>

RateLimitKeys == { RateLimitKey(t, a) : t \in Tenants, a \in LimitedActions }

\* the clock at 0, no key in Redis, no request admitted
NoLimiter ==
    [now |-> 0, arrivals |-> 0,
     zset |-> [k \in RateLimitKeys |-> {}],
     admitted |-> [k \in RateLimitKeys |-> [s \in 0..MaxClock |-> 0]],
     last |-> "none"]

\* no search request has been made and no chunk is embedded
NoSearch ==
    [pc |-> "idle", tenant_id |-> "none", search_filter |-> << >>,
     index |-> {}, matches |-> {}, results |-> {}]

\* no update request has been made
NoDocument ==
    [pc |-> "idle", rows |-> {}, index |-> {}, old |-> {}, calls |-> {},
     response |-> "none"]

\* no call of a chunking strategy has been made
NoChunking ==
    [pc |-> "idle", caller |-> "none", strategy |-> "none", chunk_size |-> 0,
     overlap |-> 0, text |-> Text(0, << >>, 1, 0), tokenizer |-> "none",
     start |-> 0,
     current_chunk |-> 0, spaces |-> {}, next |-> 0, chunks |-> << >>,
     rows |-> << >>]

\* A worker process: where its KafkaConsumer is ("new": start not called,
\* "provisioned": ensure_topics returned, "no_topics": ensure_topics raised,
\* "running": in the loop, "failed": the consumer could not start, "closed":
\* stopped by _safe_stop), the attempts ensure_topics
\* made, and IngestionWorker._shutdown_requested.
Process(consumer, attempts, shutdown) ==
    [consumer |-> consumer, attempts |-> attempts,
     _shutdown_requested |-> shutdown]

\* worker.py:16-19  HealthMonitor.__init__, no report made
NoReport ==
    [_is_healthy |-> TRUE, status |-> "none", processed_jobs |-> 0,
     failed_jobs |-> 0]

\* ------------------------------------------------------------------------
\* Initial state
\* ------------------------------------------------------------------------
InitState ==
    /\ log = [t \in {TOPIC_INGESTION, TOPIC_RETRY, TOPIC_DLQ} |-> << >>]
    /\ committed = [t \in ConsumedTopics |-> 0]
    /\ topics \in { {TOPIC_INGESTION}, {TOPIC_INGESTION, TOPIC_RETRY} }
    /\ owner = "w1"
    /\ position = [w \in Workers |-> [t \in ConsumedTopics |-> 0]]
    /\ pc = [w \in Workers |-> "idle"]
    /\ cur = [w \in Workers |-> NoValue]
    /\ disp = [w \in Workers |-> "none"]
    /\ outcome = [w \in Workers |-> "none"]
    /\ didCommit = [w \in Workers |-> FALSE]
    /\ processed_messages = [w \in Workers |-> 0]
    /\ failed_messages = [w \in Workers |-> 0]
    /\ jobStatus = [j \in JobIds |-> "absent"]
    /\ jobError = [j \in Jobs |-> 0]
    /\ embedding_id = [j \in Jobs |-> FALSE]
    /\ vectors = << >>
    /\ processed_count = [w \in Workers |-> 0]
    /\ failed_count = [w \in Workers |-> 0]
    /\ faults = 0
    /\ producer = [_is_connected |-> FALSE, last |-> NoCall]
    /\ upload = [pc |-> "idle", strategy |-> "none", chunks |-> 0, next |-> 0,
                 response |-> "none"]
    /\ chunker = NoChunking
    /\ health = [w \in Workers |-> NoReport]
    /\ limiter = NoLimiter
    /\ search = NoSearch
    /\ document = NoDocument

\* The worker of app/workers/v2 is deployed (worker.py:46-53) and its
\* consumers have started.
Init ==
    /\ InitState
    /\ generation = "v2"
    /\ process = [w \in Workers |-> Process("running", 0, FALSE)]

\* The worker of app/workers/v2 is deployed and KafkaConsumer.start has not
\* been called yet.
InitStartup ==
    /\ InitState
    /\ generation = "v2"
    /\ process = [w \in Workers |-> Process("new", 0, FALSE)]

\* Either worker is deployed: app/workers/worker.py (its consumer subscribes
\* to the ingestion topic only, queue_config.py:46-47) or app/workers/v2.
InitWorkers ==
    /\ InitState
    /\ generation \in {"v1", "v2"}
    /\ generation = "v1" => topics = {TOPIC_INGESTION}
    /\ process = [w \in Workers |-> Process("running", 0, FALSE)]

\* ------------------------------------------------------------------------
\* The upload side: job rows and their messages
\* ------------------------------------------------------------------------
\* uploads.py:89-106: the chunk's EmbeddingJob row is inserted pending and
\* committed (the chunk row exists since create_chunks, embedding_id null).
CreateJobRow(j) ==
    /\ jobStatus[j] = "absent"
    /\ jobStatus' = [jobStatus EXCEPT ![j] = "pending"]
    /\ UNCHANGED << log, committed, deployment, api, services, chunker, workers, owner, position, pc, cur, disp,
                    outcome, didCommit, processed_messages, failed_messages,
                    jobError, embedding_id, vectors, processed_count,
                    failed_count, faults >>

Published(j) ==
    \E i \in 1..Len(log[TOPIC_INGESTION]) : log[TOPIC_INGESTION][i] = JobMessage(j)

\* uploads.py:111-125 with KafkaProducer.publish_job: the acknowledged send
publish_job(j) ==
    /\ jobStatus[j] = "pending"
    /\ ~Published(j)
    /\ Len(log[TOPIC_INGESTION]) < MaxLog
    /\ log' = [log EXCEPT ![TOPIC_INGESTION] = Append(@, JobMessage(j))]
    /\ UNCHANGED << committed, deployment, api, services, chunker, workers, owner, position, pc, cur, disp,
                    outcome, didCommit, processed_messages, failed_messages,
                    jobStatus, jobError, embedding_id, vectors,
                    processed_count, failed_count, faults >>

\* Bytes put on the ingestion topic by any other producer: the consumer
\* takes whatever the topic holds (consumer.py:48, `value: bytes`).
ForeignPublish(p) ==
    /\ Len(log[TOPIC_INGESTION]) < MaxLog
    /\ log' = [log EXCEPT ![TOPIC_INGESTION] = Append(@, p)]
    /\ UNCHANGED << committed, deployment, api, services, chunker, workers, owner, position, pc, cur, disp,
                    outcome, didCommit, processed_messages, failed_messages,
                    jobStatus, jobError, embedding_id, vectors,
                    processed_count, failed_count, faults >>

\* ------------------------------------------------------------------------
\* Chunking (app/utils/chunking.py, app/services/chunking_service.py)
\* ------------------------------------------------------------------------
\* everything but the ingestion topic, the job rows, the producer and the
\* upload request
workerstate_nochunker ==
    << committed, deployment, owner, position, pc, cur, disp, outcome,
       didCommit, processed_messages, failed_messages, jobError,
       embedding_id, vectors, processed_count, failed_count, faults, workers,
       services >>

workerstate == << workerstate_nochunker, chunker >>

\* everything but the services
noservices ==
    << log, jobStatus, api, chunker, committed, deployment, owner, position,
       pc, cur, disp, outcome, didCommit, processed_messages, failed_messages,
       jobError, embedding_id, vectors, processed_count, failed_count, faults,
       workers >>

\* everything but the chunker
nochunker == << log, jobStatus, api, workerstate_nochunker >>

Min(a, b) == IF a < b THEN a ELSE b
Max(a, b) == IF a > b THEN a ELSE b

RECURSIVE SumSeq(_)
SumSeq(s) == IF s = << >> THEN 0 ELSE Head(s) + SumSeq(Tail(s))

\* len(text)
TextLen(t) ==
    LET n == Len(t.sents)
    IN  IF n = 0 THEN t.lead + t.trail
        ELSE t.lead + SumSeq(t.sents) + t.gap * (n - 1) + t.trail

\* the sequences of at most n elements of S
SeqsUpTo(S, n) == UNION { [1..k -> S] : k \in 0..n }

\* the texts chunked
Texts ==
    { Text(l, s, g, tr) : l \in 0..1, s \in SeqsUpTo(SentenceLengths, MaxSentences),
                          g \in 0..MaxGap, tr \in 0..1 }

\* tokenizer.py:16-38: spaCy's pipeline when the model loads, else the
\* regular expression
Tokenizers == {"regex", "spacy"}

\* tokenizer.py:62-79  Tokenizer.tokenize.  _regex_split (56-60) gives the
\* stripped parts between the whitespace that follows a '.', '?' or '!':
\* sentences with no whitespace between them stay one part.  With spaCy
\* the sentences are those of doc.sents, each stripped (76-78), whether or
\* not whitespace separates them.
tokenize(t, tokenizer) ==
    IF tokenizer = "regex" /\ t.gap = 0 /\ t.sents # << >>
    THEN << SumSeq(t.sents) >>
    ELSE t.sents

\* len(text[start:end]) with Python's slice indices
SliceLen(start, end, len) ==
    LET lo == IF start < 0 THEN Max(len + start, 0) ELSE Min(start, len)
        hi == IF end < 0 THEN Max(len + end, 0) ELSE Min(end, len)
    IN  Max(hi - lo, 0)

\* a chunk as the strategies return it; its text is kept by its length
ChunkData(text, start_char, end_char, chunk_size) ==
    [text |-> text, start_char |-> start_char, end_char |-> end_char,
     chunk_size |-> chunk_size]

\* len(current_chunk.strip()) for a buffer of length n whose whitespace is
\* at the positions `spaces` (counted from 1): the buffer ends with the end
\* of a stripped sentence, and whitespace is never next to whitespace in it
StrippedLen(n, spaces) == IF 1 \in spaces THEN n - 1 ELSE n

\* chunking.py:87-90
strategies == {"fixed_size", "sentence_aware"}

\* chunk_document falling back to a known strategy instead of raising
chunk_document_default(strategy) ==
    [raises |-> FALSE,
     strategy |-> IF strategy \in strategies THEN strategy ELSE "fixed_size"]

\* chunking.py:92-101  ChunkingStrategyFactory.chunk_document: ValueError
\* for a name that is not registered, else the strategy that chunks
chunk_document(strategy) ==
    [raises |-> strategy \notin strategies, strategy |-> strategy]

\* A strategy is called: by ChunkingService.create_chunks through
\* chunk_document with the default sizes (chunking_service.py:23), or by
\* any other code with sizes of its choice.
ChunkCall ==
    /\ chunker.pc = "idle"
    /\ \E caller \in {"create_chunks", "chunk"}, name \in strategies \cup {"other"},
          text \in Texts, p \in ChunkParams, tk \in Tokenizers :
          /\ name # "sentence_aware" => tk = "regex"
          /\ caller = "create_chunks" => p = << DefaultChunkSize, DefaultOverlap >>
          /\ LET d == chunk_document(name)
             IN  chunker' = [chunker EXCEPT
                     !.pc = IF d.raises THEN "error" ELSE d.strategy,
                     !.caller = caller, !.strategy = name,
                     !.chunk_size = p[1], !.overlap = p[2], !.text = text,
                     !.tokenizer = tk,
                     !.start = 0, !.current_chunk = 0, !.spaces = {}, !.next = 1]
    /\ UNCHANGED nochunker

\* chunking.py:21-32: one turn of the loop of FixedSizeChunking.chunk
FixedSizeWindow ==
    /\ chunker.pc = "fixed_size"
    /\ chunker.start < TextLen(chunker.text)
    /\ chunker.chunk_size > chunker.overlap \/ Len(chunker.chunks) < MaxStuckWindows
    /\ LET len == TextLen(chunker.text)
           end == Min(chunker.start + chunker.chunk_size, len)
       IN  chunker' = [chunker EXCEPT
               !.chunks = Append(@, ChunkData(SliceLen(chunker.start, end, len),
                                              chunker.start, end,
                                              SliceLen(chunker.start, end, len))),
               !.start = @ + chunker.chunk_size - chunker.overlap]
    /\ UNCHANGED nochunker

\* chunking.py:21,34: the loop ends and the chunks are returned
FixedSizeReturn ==
    /\ chunker.pc = "fixed_size"
    /\ ~(chunker.start < TextLen(chunker.text))
    /\ chunker' = [chunker EXCEPT !.pc = "returned"]
    /\ UNCHANGED nochunker

\* chunking.py:55: the buffer is flushed before the sentence goes in
Flushes(current_chunk, sent_len, chunk_size) ==
    current_chunk + sent_len > chunk_size /\ current_chunk > 0

\* chunking.py:51-71: one sentence of SentenceAwareChunking.chunk; the
\* buffer current_chunk is kept by its length and the positions of the
\* spaces that join its sentences
SentenceAwareSentence ==
    /\ chunker.pc = "sentence_aware"
    /\ chunker.next <= Len(tokenize(chunker.text, chunker.tokenizer))
    /\ LET sent_len == tokenize(chunker.text, chunker.tokenizer)[chunker.next]
           buf == chunker.current_chunk
           overlap_text == IF chunker.overlap > 0 THEN Min(chunker.overlap, buf) ELSE 0
       IN  chunker' =
             IF Flushes(buf, sent_len, chunker.chunk_size)
             THEN [chunker EXCEPT
                     !.chunks = Append(@, ChunkData(StrippedLen(buf, chunker.spaces),
                                                    chunker.start, chunker.start + buf, buf)),
                     !.start = @ + buf - overlap_text,
                     !.current_chunk = overlap_text + 1 + sent_len,
                     !.spaces = { q - (buf - overlap_text) :
                                    q \in { r \in @ : r > buf - overlap_text } }
                                \cup { overlap_text + 1 },
                     !.next = @ + 1]
             ELSE [chunker EXCEPT
                     !.current_chunk = IF buf > 0 THEN buf + 1 + sent_len ELSE sent_len,
                     !.spaces = IF buf > 0 THEN @ \cup { buf + 1 } ELSE @,
                     !.next = @ + 1]
    /\ UNCHANGED nochunker

\* chunking.py:42-43 and 73-82: nothing for a text of whitespace, else the
\* last buffer is the final chunk
SentenceAwareReturn ==
    /\ chunker.pc = "sentence_aware"
    /\ chunker.next > Len(tokenize(chunker.text, chunker.tokenizer))
    /\ chunker' = [chunker EXCEPT
           !.pc = "returned",
           !.chunks = IF chunker.current_chunk > 0
                      THEN Append(@, ChunkData(StrippedLen(chunker.current_chunk,
                                                           chunker.spaces),
                                               chunker.start,
                                               chunker.start + chunker.current_chunk,
                                               chunker.current_chunk))
                      ELSE @]
    /\ UNCHANGED nochunker

\* chunking_service.py:26-43: one Chunk row per chunk, chunk_index from
\* enumerate, inserted together
SaveChunks ==
    /\ chunker.pc = "returned"
    /\ chunker.caller = "create_chunks"
    /\ chunker' = [chunker EXCEPT
           !.pc = "saved",
           !.rows = [i \in 1..Len(chunker.chunks) |->
                        [chunk_index |-> i - 1,
                         start_char |-> chunker.chunks[i].start_char,
                         end_char |-> chunker.chunks[i].end_char,
                         size |-> chunker.chunks[i].chunk_size]]]
    /\ UNCHANGED nochunker

\* ------------------------------------------------------------------------
\* KafkaProducer (app/workers/v2/producer.py)
\* ------------------------------------------------------------------------
\* m appended n times
RECURSIVE Copies(_, _, _)
Copies(s, m, n) == IF n = 0 THEN s ELSE Copies(Append(s, m), m, n - 1)

\* publish_job without the `raise` of its handler (84): a call whose send
\* raised returns None, which the @retry takes for success
PublishJobCalls_noreraise(connected) ==
    IF ~connected
    THEN { Call("raised", 0, FALSE, 0, FALSE) }
    ELSE UNION { { Call("returned", a, TRUE, c, TRUE) : c \in 1..a }
                 \cup { Call("returned", a, FALSE, c, TRUE) : c \in 0..a }
                 : a \in 1..MaxPublishAttempts }

\* producer.py:46-84  KafkaProducer.publish_job under its @retry: every way
\* one call can go.  A producer that is not connected raises RuntimeError
\* before any send (52-53; RuntimeError is not retried).  Otherwise each
\* attempt is one send_and_wait (71-74): the call returns after the first
\* acknowledged one (77); an attempt that raises KafkaError or ConnectionError
\* is repeated while fewer than MaxPublishAttempts were made, and the call
\* raises after the last of them or at once on any other exception (79-84).
\* A send that raised tells nothing about the broker: the record may be on
\* the topic with its acknowledgement lost, so a call of a attempts leaves
\* at most a copies, and at least one when its last send was acknowledged.
PublishJobCalls(connected) ==
    IF ~connected
    THEN { Call("raised", 0, FALSE, 0, FALSE) }
    ELSE UNION { { Call("returned", a, TRUE, c, TRUE) : c \in 1..a }
                 \cup { Call("raised", a, FALSE, c, TRUE) : c \in 0..a }
                 : a \in 1..MaxPublishAttempts }

\* producer.py:23-38  KafkaProducer.start
producer_start(ok) ==
    producer' = [producer EXCEPT !._is_connected = IF ok THEN TRUE ELSE @]

\* producer.py:40-44  KafkaProducer.stop
producer_stop ==
    producer' = [producer EXCEPT !._is_connected = FALSE]

\* one call of publish_job for the job of chunk k, going as o
publish_job_call(k, o) ==
    /\ o \in PublishJobCalls(producer._is_connected)
    /\ log' = [log EXCEPT ![TOPIC_INGESTION] = Copies(@, JobMessage(k), o.copies)]
    /\ producer' = [producer EXCEPT !.last = o]

\* Any code that holds a KafkaProducer: it calls start, stop and publish_job
\* in any order.
ClientStart ==
    /\ ~producer._is_connected
    /\ \E ok \in BOOLEAN : producer_start(ok)
    /\ UNCHANGED << log, jobStatus, upload, workerstate >>

ClientStop ==
    /\ producer_stop
    /\ UNCHANGED << log, jobStatus, upload, workerstate >>

ClientPublish ==
    /\ Len(log[TOPIC_INGESTION]) < MaxChunks
    /\ \E k \in Chunks, o \in PublishJobCalls(producer._is_connected) :
          publish_job_call(k, o)
    /\ UNCHANGED << jobStatus, upload, workerstate >>

\* ------------------------------------------------------------------------
\* upload_file (app/api/v1/routes/uploads.py); update_document
\* (routes/documents.py:137-189) queues its jobs by the same steps
\* ------------------------------------------------------------------------
Respond(code) ==
    upload' = [upload EXCEPT !.pc = "done", !.response = code]

\* uploads.py:34-80: the document is stored and create_chunks makes its
\* chunks with the strategy of settings.CHUNKING_STRATEGY; the ValueError
\* of chunk_document is not caught by upload_file and ends the request
\* with status 500
UploadChunks ==
    /\ upload.pc = "idle"
    /\ \E name \in strategies \cup {"other"}, n \in Chunks :
          IF chunk_document(name).raises
          THEN upload' = [upload EXCEPT !.pc = "done", !.strategy = name,
                                        !.response = "500"]
          ELSE upload' = [upload EXCEPT !.pc = "start", !.strategy = name,
                                        !.chunks = n]
    /\ UNCHANGED << log, jobStatus, producer, workerstate >>

\* uploads.py:81-86: producer.start(); when it raises the request is
\* answered 503 (the `finally` of 134 belongs to the later try)
UploadStartProducer ==
    /\ upload.pc = "start"
    /\ \E ok \in BOOLEAN :
          /\ producer_start(ok)
          /\ IF ok
             THEN upload' = [upload EXCEPT !.pc = "insert"]
             ELSE Respond("503")
    /\ UNCHANGED << log, jobStatus, workerstate >>

\* the job rows added to the session and committed only after the
\* publishing
UploadInsertJobs_uncommitted ==
    /\ upload.pc = "insert"
    /\ upload' = [upload EXCEPT !.pc = "publish", !.next = 1]
    /\ UNCHANGED << log, jobStatus, producer, workerstate >>

\* uploads.py:88-108: one pending EmbeddingJob row per chunk, committed
\* before anything is published; an exception goes to 129-132
UploadInsertJobs ==
    /\ upload.pc = "insert"
    /\ \E ok \in BOOLEAN :
          IF ok
          THEN /\ jobStatus' = [j \in JobIds |->
                        IF j \in 1..upload.chunks THEN "pending" ELSE jobStatus[j]]
               /\ upload' = [upload EXCEPT !.pc = "publish", !.next = 1]
          ELSE /\ upload' = [upload EXCEPT !.pc = "stop", !.response = "500"]
               /\ UNCHANGED jobStatus
    /\ UNCHANGED << log, producer, workerstate >>

\* uploads.py:111-125: `await producer.publish_job(job_data)` for the next
\* chunk; 129-132: an exception ends the loop, db.rollback() (the rows were
\* committed at 106) and HTTP 500
UploadPublish ==
    /\ upload.pc = "publish"
    /\ \E o \in PublishJobCalls(producer._is_connected) :
          /\ publish_job_call(upload.next, o)
          /\ upload' =
               IF o.result = "raised"
               THEN [upload EXCEPT !.pc = "stop", !.response = "500"]
               ELSE IF upload.next = upload.chunks
               THEN [upload EXCEPT !.pc = "stop", !.response = "200"]
               ELSE [upload EXCEPT !.next = @ + 1]
    /\ UNCHANGED << jobStatus, workerstate >>

\* uploads.py:134-135 `finally: await producer.stop()`, then the response
\* (138-146 or the HTTPException of 132)
UploadStopProducer ==
    /\ upload.pc = "stop"
    /\ producer_stop
    /\ upload' = [upload EXCEPT !.pc = "done"]
    /\ UNCHANGED << log, jobStatus, workerstate >>

\* ------------------------------------------------------------------------
\* KafkaConsumer
\* ------------------------------------------------------------------------
dbvars == << jobStatus, jobError, embedding_id, vectors >>
taskcounters == << processed_count, failed_count >>

\* A call of the environment fails (failed) or not: the failures of a run
\* are counted.
Fails(failed) ==
    IF failed
    THEN faults < MaxFaults /\ faults' = faults + 1
    ELSE UNCHANGED faults

\* The outcome of commit() for worker w: it raises for a member that does
\* not own the partitions (CommitFailedError after a rebalance) and can
\* raise for the owner as any broker call can.
CommitOutcome(w, ok) ==
    IF owner = w THEN Fails(~ok) ELSE ~ok /\ UNCHANGED faults

\* AIOKafkaConsumer.commit() as called at consumer.py:157,183,220,242: the
\* positions of the owned partitions become the committed offsets.  It
\* raises for a member that lost its partitions, and can raise otherwise.
CommitOffsets(w) ==
    [t \in ConsumedTopics |-> IF t \in topics THEN position[w][t] ELSE committed[t]]

\* consumer.py:112 `async for msg in self.consumer` with the deserializer
\* of consumer.py:45, and the first lines of _process_message_with_retry
\* (consumer.py:128-132): a value without .get escapes the try block, is
\* re-raised by start (consumer.py:121-125) and ends the loop.
Fetch(w, t) ==
    /\ generation = "v2"
    /\ process[w].consumer = "running"
    /\ pc[w] = "idle"
    /\ owner = w
    /\ t \in topics
    /\ position[w][t] < Len(log[t])
    /\ LET v == deserialize_message(log[t][position[w][t] + 1])
       IN  /\ cur' = [cur EXCEPT ![w] = v]
           /\ pc' = [pc EXCEPT ![w] =
                        IF ~v.isdict THEN "stopped"
                        ELSE IF v.invalid THEN "invalid_dlq"
                        ELSE "process"]
    /\ position' = [position EXCEPT ![w][t] = @ + 1]
    /\ disp' = [disp EXCEPT ![w] = "none"]
    /\ outcome' = [outcome EXCEPT ![w] = "none"]
    /\ didCommit' = [didCommit EXCEPT ![w] = FALSE]
    /\ UNCHANGED << log, committed, deployment, api, services, chunker, workers, owner, processed_messages,
                    failed_messages, dbvars, taskcounters, faults >>

\* consumer.py:132-152: an invalid message goes to the DLQ topic; a failed
\* publish is logged and swallowed (consumer.py:149-150).
InvalidToDlq(w) ==
    /\ pc[w] = "invalid_dlq"
    /\ \E acked \in BOOLEAN :
          /\ Fails(~acked)
          /\ IF acked
             THEN /\ log' = [log EXCEPT ![TOPIC_DLQ] =
                                Append(@, dlq_data(cur[w], "validation"))]
                  /\ disp' = [disp EXCEPT ![w] = "dlq"]
             ELSE UNCHANGED << log, disp >>
    /\ pc' = [pc EXCEPT ![w] = "invalid_commit"]
    /\ UNCHANGED << committed, deployment, api, services, chunker, workers, owner, position, cur, outcome,
                    didCommit, processed_messages, failed_messages, dbvars,
                    taskcounters >>

\* consumer.py:154-158, and consumer.py:187-189 when the commit raises
InvalidCommit(w) ==
    /\ pc[w] = "invalid_commit"
    /\ \E ok \in BOOLEAN :
          /\ CommitOutcome(w, ok)
          /\ IF ok
             THEN /\ committed' = CommitOffsets(w)
                  /\ didCommit' = [didCommit EXCEPT ![w] = TRUE]
                  /\ failed_messages' = [failed_messages EXCEPT ![w] = @ + 1]
                  /\ pc' = [pc EXCEPT ![w] = "idle"]
             ELSE /\ failed_messages' = [failed_messages EXCEPT ![w] = @ + 2]
                  /\ pc' = [pc EXCEPT ![w] = "handle_error"]
                  /\ UNCHANGED << committed, didCommit >>
    /\ UNCHANGED << log, deployment, api, services, chunker, workers, owner, position, cur, disp, outcome,
                    processed_messages, dbvars, taskcounters >>

\* consumer.py:183, and consumer.py:187-189 when the commit raises
CommitProcessed(w) ==
    /\ pc[w] = "commit"
    /\ \E ok \in BOOLEAN :
          /\ CommitOutcome(w, ok)
          /\ IF ok
             THEN /\ committed' = CommitOffsets(w)
                  /\ didCommit' = [didCommit EXCEPT ![w] = TRUE]
                  /\ pc' = [pc EXCEPT ![w] = "idle"]
                  /\ UNCHANGED failed_messages
             ELSE /\ failed_messages' = [failed_messages EXCEPT ![w] = @ + 1]
                  /\ pc' = [pc EXCEPT ![w] = "handle_error"]
                  /\ UNCHANGED << committed, didCommit >>
    /\ UNCHANGED << log, deployment, api, services, chunker, workers, owner, position, cur, disp, outcome,
                    processed_messages, dbvars, taskcounters >>

\* KafkaConsumer._handle_processing_error up to the publish
\* (consumer.py:191-217 and 222-239); a failed publish propagates.
handle_processing_error(w) ==
    /\ pc[w] = "handle_error"
    /\ \E acked \in BOOLEAN :
          /\ Fails(~acked)
          /\ IF acked
             THEN /\ IF AttemptOf(cur[w]) <= MaxRetryAttempt
                     THEN /\ log' = [log EXCEPT ![TOPIC_RETRY] =
                                        Append(@, retry_data(cur[w]))]
                          /\ disp' = [disp EXCEPT ![w] = "retry"]
                     ELSE /\ log' = [log EXCEPT ![TOPIC_DLQ] =
                                        Append(@, dlq_data(cur[w], "max_retries"))]
                          /\ disp' = [disp EXCEPT ![w] = "dlq"]
                  /\ pc' = [pc EXCEPT ![w] = "handle_commit"]
             ELSE /\ pc' = [pc EXCEPT ![w] = "stopped"]
                  /\ UNCHANGED << log, disp >>
    /\ UNCHANGED << committed, deployment, api, services, chunker, workers, owner, position, cur, outcome,
                    didCommit, processed_messages, failed_messages, dbvars,
                    taskcounters >>

\* consumer.py:220 and 242: the commit that ends _handle_processing_error
HandleCommit(w) ==
    /\ pc[w] = "handle_commit"
    /\ \E ok \in BOOLEAN :
          /\ CommitOutcome(w, ok)
          /\ IF ok
             THEN /\ committed' = CommitOffsets(w)
                  /\ didCommit' = [didCommit EXCEPT ![w] = TRUE]
                  /\ pc' = [pc EXCEPT ![w] = "idle"]
             ELSE /\ pc' = [pc EXCEPT ![w] = "stopped"]
                  /\ UNCHANGED << committed, didCommit >>
    /\ UNCHANGED << log, deployment, api, services, chunker, workers, owner, position, cur, disp, outcome,
                    processed_messages, failed_messages, dbvars,
                    taskcounters >>

\* ------------------------------------------------------------------------
\* The vector store
\* ------------------------------------------------------------------------
\* The id under which a chunk's vector is stored: doc_id=chunk_id
\* (tasks.py:102); the chunk of job j is named by j.
VectorId(v) == << "chunk_id", v.job >>

\* tasks.py:158-168: the metadata stored with the vector, by field name
VectorMetadata(v) ==
    ({"document_id", "chunk_id", "tenant_id", "job_id"} \cap v.keys)
    \cup {"file_path", "chunk_index", "chunk_size", "content_length",
          "processed_at"}

\* PineconeVectorStore.upsert_vector: the entry stored under an id replaces
\* whatever the store held under that id.
upsert_vector(store, id, metadata) ==
    Append(SelectSeq(store, LAMBDA e : e.id # id),
           [id |-> id, metadata |-> metadata])

\* ------------------------------------------------------------------------
\* TaskProcessor (the process_func of the ingestion worker)
\* ------------------------------------------------------------------------
\* TaskProcessor._validate_job_data: "false" when a required field is
\* missing or empty, "raise" when len() is applied to a chunk_content that
\* has no length (tasks.py:121), "true" otherwise.
validate_job_data(v) ==
    IF worker_required_fields \ v.keys # {} \/ v.content = "empty"
    THEN "false"
    ELSE IF v.content = "unsized" THEN "raise" ELSE "true"

\* process_func returned normally to consumer.py:167-171
Returned(w, what) ==
    /\ outcome' = [outcome EXCEPT ![w] = what]
    /\ disp' = [disp EXCEPT ![w] = "success"]
    /\ processed_messages' = [processed_messages EXCEPT ![w] = @ + 1]
    /\ pc' = [pc EXCEPT ![w] = "commit"]
    /\ UNCHANGED failed_messages

\* len(s[:n]) for a string of length len
Truncated(len, n) == IF len > n THEN n ELSE len

\* len(str(e)) of the exception that process_ingestion_job caught: the
\* ValueError of tasks.py:82, or an error of the database or of the vector
\* store, whose text can be of any length (here: at the limit of tasks.py:58
\* and one character beyond it).
ErrorLengths(failure) ==
    IF failure = "fail_embedding"
    THEN {EmptyEmbeddingError}
    ELSE {MaxErrorLength, MaxErrorLength + 1}

FailPcs == {"fail_db", "fail_embedding", "fail_store"}

\* _update_job_status with a requeue slip: a failed job is put back to
\* pending instead of being marked failed
update_job_status_requeue(j, status, error_message) ==
    /\ jobStatus' = [jobStatus EXCEPT ![j] =
                         IF status = "failed" THEN "pending" ELSE status]
    /\ jobError' = [jobError EXCEPT ![j] =
                        IF error_message # 0
                        THEN Truncated(error_message, MaxErrorLength) ELSE @]

\* the job row as TaskProcessor._update_job_status leaves it when its
\* transaction commits (tasks.py:55-61)
update_job_status(j, status, error_message) ==
    /\ jobStatus' = [jobStatus EXCEPT ![j] = status]
    /\ jobError' = [jobError EXCEPT ![j] =
                        IF error_message # 0
                        THEN Truncated(error_message, MaxErrorLength) ELSE @]

\* TaskProcessor.process_ingestion_job, tasks.py:127-152: validation and
\* the locked update of the job row to processing.
StartProcessing(w) ==
    /\ pc[w] = "process"
    /\ LET v == cur[w]
           valid == validate_job_data(v)
       IN  CASE valid = "raise" ->
                  \* the TypeError leaves process_func: consumer.py:172-175
                  \* and 187-189 count the message twice
                  /\ outcome' = [outcome EXCEPT ![w] = "raised"]
                  /\ failed_messages' = [failed_messages EXCEPT ![w] = @ + 2]
                  /\ pc' = [pc EXCEPT ![w] = "handle_error"]
                  /\ UNCHANGED << disp, processed_messages, dbvars,
                                  taskcounters, faults >>
             [] valid = "false" ->
                  /\ failed_count' = [failed_count EXCEPT ![w] = @ + 1]
                  /\ Returned(w, "skipped")
                  /\ UNCHANGED << dbvars, processed_count, faults >>
             [] OTHER ->
                  \E db \in {"ok", "error"} :
                     /\ Fails(db = "error")
                     /\ IF db = "error"
                        THEN /\ pc' = [pc EXCEPT ![w] = "fail_db"]
                             /\ UNCHANGED << disp, outcome, processed_messages,
                                             failed_messages, dbvars, taskcounters >>
                        ELSE IF jobStatus[v.job] = "absent"
                        THEN /\ failed_count' = [failed_count EXCEPT ![w] = @ + 1]
                             /\ Returned(w, "skipped")
                             /\ UNCHANGED << dbvars, processed_count >>
                        ELSE /\ update_job_status(v.job, "processing", 0)
                             /\ pc' = [pc EXCEPT ![w] = "embed"]
                             /\ UNCHANGED << disp, outcome, processed_messages,
                                             failed_messages, embedding_id, vectors,
                                             taskcounters >>
    /\ UNCHANGED << log, committed, deployment, api, services, chunker, workers, owner, position, cur, didCommit >>

\* _generate_embedding passing an empty embedding on to the store
generate_embedding_unchecked(w) ==
    /\ pc[w] = "embed"
    /\ \E embedding \in {"vector", "empty"} :
          /\ Fails(embedding = "empty")
          /\ pc' = [pc EXCEPT ![w] = "store"]
    /\ UNCHANGED << log, committed, deployment, api, services, chunker, workers, owner, position, cur, disp,
                    outcome, didCommit, processed_messages, failed_messages,
                    dbvars, taskcounters >>

\* TaskProcessor._generate_embedding (tasks.py:75-89) over
\* GeminiEmbeddingService.embed_text, which returns [] for blank text and
\* on every error of the generator (embedding_service.py:20-39).
generate_embedding(w) ==
    /\ pc[w] = "embed"
    /\ \E embedding \in {"vector", "empty"} :
          /\ Fails(embedding = "empty")
          /\ pc' = [pc EXCEPT ![w] = IF embedding = "vector" THEN "store"
                                      ELSE "fail_embedding"]
    /\ UNCHANGED << log, committed, deployment, api, services, chunker, workers, owner, position, cur, disp,
                    outcome, didCommit, processed_messages, failed_messages,
                    dbvars, taskcounters >>

\* _store_embedding writing the vector under the document's id
store_embedding_by_document(w) ==
    /\ pc[w] = "store"
    /\ \E stored \in BOOLEAN :
          /\ Fails(~stored)
          /\ IF stored
             THEN /\ vectors' = upsert_vector(vectors,
                                  << "document_id", cur[w].job >>,
                                  VectorMetadata(cur[w]))
                  /\ pc' = [pc EXCEPT ![w] = "complete"]
             ELSE /\ pc' = [pc EXCEPT ![w] = "fail_store"]
                  /\ UNCHANGED vectors
    /\ UNCHANGED << log, committed, deployment, api, services, chunker, workers, owner, position, cur, disp,
                    outcome, didCommit, processed_messages, failed_messages,
                    jobStatus, jobError, embedding_id, taskcounters >>

\* _store_embedding adding a new entry on every call instead of writing
\* under the chunk's id
store_embedding_insert(w) ==
    /\ pc[w] = "store"
    /\ \E stored \in BOOLEAN :
          /\ Fails(~stored)
          /\ IF stored
             THEN /\ vectors' = Append(vectors,
                                  [id |-> VectorId(cur[w]),
                                   metadata |-> VectorMetadata(cur[w])])
                  /\ pc' = [pc EXCEPT ![w] = "complete"]
             ELSE /\ pc' = [pc EXCEPT ![w] = "fail_store"]
                  /\ UNCHANGED vectors
    /\ UNCHANGED << log, committed, deployment, api, services, chunker, workers, owner, position, cur, disp,
                    outcome, didCommit, processed_messages, failed_messages,
                    jobStatus, jobError, embedding_id, taskcounters >>

\* TaskProcessor._store_embedding (tasks.py:96-110): upsert keyed by the
\* chunk id, or the exception left after its retries.
store_embedding(w) ==
    /\ pc[w] = "store"
    /\ \E stored \in BOOLEAN :
          /\ Fails(~stored)
          /\ IF stored
             THEN /\ vectors' = upsert_vector(vectors, VectorId(cur[w]),
                                               VectorMetadata(cur[w]))
                  /\ pc' = [pc EXCEPT ![w] = "complete"]
             ELSE /\ pc' = [pc EXCEPT ![w] = "fail_store"]
                  /\ UNCHANGED vectors
    /\ UNCHANGED << log, committed, deployment, api, services, chunker, workers, owner, position, cur, disp,
                    outcome, didCommit, processed_messages, failed_messages,
                    jobStatus, jobError, embedding_id, taskcounters >>

\* tasks.py:173-196: the chunk row gets its embedding_id in the session
\* (a database error there is swallowed, tasks.py:188-190) and the job is
\* marked completed in the transaction that commits both.  "retried": the
\* first attempt of _update_job_status rolled the session back and the
\* retry of tasks.py:35-39 committed the status alone.
CompleteJob(w) ==
    /\ pc[w] = "complete"
    /\ LET j == cur[w].job IN
       \E chunkWritten \in BOOLEAN, db \in {"ok", "retried", "error"} :
          /\ Fails(~chunkWritten \/ db # "ok")
          /\ IF db = "error"
             THEN /\ pc' = [pc EXCEPT ![w] = "fail_db"]
                  /\ UNCHANGED << disp, outcome, processed_messages,
                                  failed_messages, dbvars, taskcounters >>
             ELSE /\ update_job_status(j, "completed", 0)
                  /\ embedding_id' = [embedding_id EXCEPT ![j] =
                                         @ \/ (chunkWritten /\ db = "ok")]
                  /\ processed_count' = [processed_count EXCEPT ![w] = @ + 1]
                  /\ Returned(w, "completed")
                  /\ UNCHANGED << vectors, failed_count >>
    /\ UNCHANGED << log, committed, deployment, api, services, chunker, workers, owner, position, cur, didCommit >>

\* tasks.py:198-207: any exception of the steps above is caught, the job is
\* marked failed when the row can be written, and process_func returns.
FailJob(w) ==
    /\ pc[w] \in FailPcs
    /\ LET j == cur[w].job IN
       \E db \in {"ok", "error"} :
          /\ Fails(db = "error")
          /\ IF db = "ok" /\ jobStatus[j] # "absent"
             THEN \E len \in ErrorLengths(pc[w]) :
                      update_job_status(j, "failed", len)
             ELSE UNCHANGED << jobStatus, jobError >>
          /\ Returned(w, IF db = "ok" /\ jobStatus[j] # "absent"
                         THEN "failed" ELSE "failed_unrecorded")
    /\ failed_count' = [failed_count EXCEPT ![w] = @ + 1]
    /\ UNCHANGED << log, committed, deployment, api, services, chunker, workers, owner, position, cur, didCommit,
                    embedding_id, vectors, processed_count >>

\* ------------------------------------------------------------------------
\* The first worker: app/workers/queue_config.py and app/workers/tasks.py
\* ------------------------------------------------------------------------
\* queue_config.py:52  value_deserializer = json.loads(v.decode("utf-8"))
legacy_deserialize(m) ==
    Value(m.shape = "object", FALSE, m.keys, m.content,
          IF "job_id" \in m.keys THEN m.job ELSE NoJob, m.attempt, FALSE)

\* queue_config.py:60-65 and tasks.py:22-43: json.loads raising on the
\* payload leaves the loop (queue_config.py:66-67); a value without .get
\* raises inside the try of queue_config.py:61-65 and is logged; a job
\* without chunk_content or chunk_id is skipped.
LegacyFetch(w) ==
    /\ generation = "v1"
    /\ pc[w] = "idle"
    /\ owner = w
    /\ position[w][TOPIC_INGESTION] < Len(log[TOPIC_INGESTION])
    /\ LET m == log[TOPIC_INGESTION][position[w][TOPIC_INGESTION] + 1]
           v == legacy_deserialize(m)
       IN  IF m.shape = "garbage"
           THEN /\ pc' = [pc EXCEPT ![w] = "stopped"]
                /\ UNCHANGED << cur, position >>
           ELSE /\ cur' = [cur EXCEPT ![w] = v]
                /\ position' = [position EXCEPT ![w][TOPIC_INGESTION] = @ + 1]
                /\ pc' = [pc EXCEPT ![w] =
                             IF \/ ~v.isdict
                                \/ v.content \in {"none", "empty"}
                                \/ "chunk_id" \notin v.keys
                             THEN "idle" ELSE "legacy_start"]
    /\ UNCHANGED << log, committed, deployment, api, services, chunker, workers, owner, disp, outcome,
                    didCommit, processed_messages, failed_messages, dbvars,
                    taskcounters, faults >>

\* tasks.py:45-62: the job row is read and committed as processing; a
\* database error goes to the rollback of tasks.py:114-116.
LegacyStart(w) ==
    /\ pc[w] = "legacy_start"
    /\ LET j == cur[w].job IN
       \E db \in {"ok", "error"} :
          /\ Fails(db = "error")
          /\ IF db = "error" \/ j = NoJob \/ jobStatus[j] = "absent"
             THEN /\ pc' = [pc EXCEPT ![w] = "idle"]
                  /\ UNCHANGED jobStatus
             ELSE /\ jobStatus' = [jobStatus EXCEPT ![j] = "processing"]
                  /\ pc' = [pc EXCEPT ![w] = "legacy_embed"]
    /\ UNCHANGED << log, committed, deployment, api, services, chunker, workers, owner, position, cur, disp,
                    outcome, didCommit, processed_messages, failed_messages,
                    jobError, embedding_id, vectors, taskcounters >>

\* tasks.py:64-87: embed_text (which raises on a chunk_content without
\* .strip, embedding_service.py:20) and the upsert keyed by the chunk id.
LegacyEmbedAndStore(w) ==
    /\ pc[w] = "legacy_embed"
    /\ \E stored \in BOOLEAN :
          /\ cur[w].content = "unsized" => ~stored
          /\ Fails(~stored /\ cur[w].content # "unsized")
          /\ IF stored
             THEN /\ vectors' = upsert_vector(vectors, VectorId(cur[w]),
                                  VectorMetadata(cur[w]) \ {"processed_at"})
                  /\ pc' = [pc EXCEPT ![w] = "legacy_done"]
             ELSE /\ pc' = [pc EXCEPT ![w] = "legacy_failed"]
                  /\ UNCHANGED vectors
    /\ UNCHANGED << log, committed, deployment, api, services, chunker, workers, owner, position, cur, disp,
                    outcome, didCommit, processed_messages, failed_messages,
                    jobStatus, jobError, embedding_id, taskcounters >>

\* tasks.py:89-116: the chunk row and the job row are written in the
\* session and committed together; an exception of the chunk SELECT marks
\* the job failed (tasks.py:106-109), an exception of the commit rolls
\* everything back (tasks.py:114-116).
LegacyFinish(w) ==
    /\ pc[w] \in {"legacy_done", "legacy_failed"}
    /\ LET j == cur[w].job IN
       \E chunk \in {"written", "missing", "error"}, committedOk \in BOOLEAN :
          /\ pc[w] = "legacy_failed" => chunk = "written"
          /\ Fails(chunk # "written" \/ ~committedOk)
          /\ IF ~committedOk
             THEN UNCHANGED << jobStatus, jobError, embedding_id >>
             ELSE IF pc[w] = "legacy_done" /\ chunk # "error"
             THEN /\ jobStatus' = [jobStatus EXCEPT ![j] = "completed"]
                  /\ jobError' = [jobError EXCEPT ![j] = 0]
                  /\ embedding_id' = [embedding_id EXCEPT ![j] =
                                         @ \/ chunk = "written"]
             ELSE /\ jobStatus' = [jobStatus EXCEPT ![j] = "failed"]
                  /\ \E len \in ErrorLengths(pc[w]) :
                        jobError' = [jobError EXCEPT ![j] = len]
                  /\ UNCHANGED embedding_id
    /\ pc' = [pc EXCEPT ![w] = "idle"]
    /\ UNCHANGED << log, committed, deployment, api, services, chunker, workers, owner, position, cur, disp,
                    outcome, didCommit, processed_messages, failed_messages,
                    vectors, taskcounters >>

\* queue_config.py:50 enable_auto_commit=True: the consumer commits the
\* offsets it has consumed in the background, whatever the handler is doing.
LegacyAutoCommit(w) ==
    /\ generation = "v1"
    /\ owner = w
    /\ committed[TOPIC_INGESTION] # position[w][TOPIC_INGESTION]
    /\ committed' = [committed EXCEPT ![TOPIC_INGESTION] =
                        position[w][TOPIC_INGESTION]]
    /\ UNCHANGED << log, deployment, api, services, chunker, workers, owner, position, pc, cur, disp, outcome,
                    didCommit, processed_messages, failed_messages, dbvars,
                    taskcounters, faults >>

\* ------------------------------------------------------------------------
\* IngestionWorker and HealthMonitor (app/workers/v2/worker.py)
\* ------------------------------------------------------------------------
\* everything but the IngestionWorker objects
noworkers ==
    << log, committed, deployment, api, services, chunker, owner, position, pc, cur, disp,
       outcome, didCommit, processed_messages, failed_messages, dbvars,
       taskcounters, faults >>

\* tasks.py:209-218  TaskProcessor.get_stats
get_stats(w) ==
    [processed_jobs |-> processed_count[w], failed_jobs |-> failed_count[w]]

\* check_health with the status computed from the counters alone
check_health_forgetful(w) ==
    LET processor_stats == get_stats(w)
        degraded == 2 * processor_stats.failed_jobs > processor_stats.processed_jobs
    IN  health' = [health EXCEPT ![w] =
            [_is_healthy |-> @._is_healthy,
             status |-> IF degraded THEN "degraded" ELSE "healthy",
             processed_jobs |-> processor_stats.processed_jobs,
             failed_jobs |-> processor_stats.failed_jobs]]

\* worker.py:21-43  HealthMonitor.check_health: the status is healthy or
\* unhealthy by _is_healthy, and degraded (with _is_healthy set false) when
\* failed_jobs > processed_jobs * 0.5
check_health(w) ==
    LET processor_stats == get_stats(w)
        degraded == 2 * processor_stats.failed_jobs > processor_stats.processed_jobs
    IN  health' = [health EXCEPT ![w] =
            [_is_healthy |-> IF degraded THEN FALSE ELSE @._is_healthy,
             status |-> IF degraded THEN "degraded"
                        ELSE IF @._is_healthy THEN "healthy" ELSE "unhealthy",
             processed_jobs |-> processor_stats.processed_jobs,
             failed_jobs |-> processor_stats.failed_jobs]]

\* worker.py:55-65: the monitoring task makes a health check
HealthCheck(w) ==
    /\ check_health(w)
    /\ UNCHANGED << noworkers, process >>

\* ensure_topics without the handler of TopicAlreadyExistsError
ensure_topics_no_catch(existing, failures) ==
    [raises |-> failures = MaxEnsureAttempts \/ existing,
     attempts |-> IF failures = MaxEnsureAttempts THEN failures
                  ELSE IF existing THEN 1 ELSE failures + 1]

\* kafka_config.py:18-71  KafkaTopicManager.ensure_topics under its @retry:
\* an attempt that raises KafkaError or ConnectionError is repeated until
\* MaxEnsureAttempts were made, and the last one's error is raised; in an
\* attempt that reaches the broker a topic that exists already is skipped
\* (64-65).  `failures` attempts fail before one succeeds.
ensure_topics(existing, failures) ==
    [raises |-> failures = MaxEnsureAttempts,
     attempts |-> IF failures = MaxEnsureAttempts THEN failures ELSE failures + 1]

\* consumer.py:101-103: KafkaConsumer.start begins with ensure_topics; its
\* exception leaves start before the consumer is made
EnsureTopics(w) ==
    /\ process[w].consumer = "new"
    /\ \E existing \in BOOLEAN, failures \in 0..MaxEnsureAttempts :
          LET r == ensure_topics(existing, failures)
          IN  process' = [process EXCEPT ![w] =
                  [@ EXCEPT !.consumer = IF r.raises THEN "no_topics" ELSE "provisioned",
                            !.attempts = r.attempts]]
    /\ UNCHANGED << noworkers, health >>

\* consumer.py:105-110: the consumer is made, subscribes and starts; when
\* that raises, start stops the consumer and raises (121-125)
Subscribe(w) ==
    /\ process[w].consumer = "provisioned"
    /\ \E ok \in BOOLEAN :
          process' = [process EXCEPT ![w].consumer = IF ok THEN "running" ELSE "failed"]
    /\ UNCHANGED << noworkers, health >>

\* worker.py:117-119, 128-129 and 71-86: the signal sets stop_event and
\* _signal_watcher runs handle_shutdown, which sets _shutdown_requested,
\* cancels the health task and makes a last health check.  Nothing here
\* touches the consumer or its _is_running.
Signal(w) ==
    /\ process[w].consumer = "running"
    /\ ~process[w]._shutdown_requested
    /\ process' = [process EXCEPT ![w]._shutdown_requested = TRUE]
    /\ check_health(w)
    /\ UNCHANGED noworkers

\* worker.py:101-111 and 157: the cancelled health task makes gather raise
\* CancelledError in run, which leaves through its `finally`; asyncio.run
\* then cancels the tasks that are left, the consumer's among them.
\* CancelledError is raised at the await the consumer task stands at, passes
\* the `except Exception` handlers of consumer.py and tasks.py, and start's
\* `finally` stops the consumer (consumer.py:124-125, 244-247).
CancelConsumer(w) ==
    /\ process[w].consumer = "running"
    /\ process[w]._shutdown_requested
    /\ process' = [process EXCEPT ![w].consumer = "closed"]
    /\ pc' = [pc EXCEPT ![w] = "exited"]
    /\ UNCHANGED << log, committed, deployment, api, services, chunker, owner, position,
                    cur, disp, outcome, didCommit, processed_messages,
                    failed_messages, dbvars, taskcounters, faults, health >>

\* ------------------------------------------------------------------------
\* The processes and the consumer group
\* ------------------------------------------------------------------------
\* A worker process is killed in the middle of a message and started again:
\* KafkaConsumer.__init__ (consumer.py:27-33) and TaskProcessor.__init__
\* (tasks.py:30-33) start the counters at 0, and the consumer resumes from
\* the committed offsets.
\* a consumer that starts at the end of the topics instead of the group's
\* committed offsets
NewProcess_latest(w) ==
    /\ pc' = [pc EXCEPT ![w] = "idle"]
    /\ cur' = [cur EXCEPT ![w] = NoValue]
    /\ disp' = [disp EXCEPT ![w] = "none"]
    /\ outcome' = [outcome EXCEPT ![w] = "none"]
    /\ didCommit' = [didCommit EXCEPT ![w] = FALSE]
    /\ processed_messages' = [processed_messages EXCEPT ![w] = 0]
    /\ failed_messages' = [failed_messages EXCEPT ![w] = 0]
    /\ processed_count' = [processed_count EXCEPT ![w] = 0]
    /\ failed_count' = [failed_count EXCEPT ![w] = 0]
    /\ position' = [position EXCEPT ![w] =
                       [t \in ConsumedTopics |-> Len(log[t])]]
    /\ health' = [health EXCEPT ![w] = NoReport]

NewProcess(w) ==
    /\ pc' = [pc EXCEPT ![w] = "idle"]
    /\ cur' = [cur EXCEPT ![w] = NoValue]
    /\ disp' = [disp EXCEPT ![w] = "none"]
    /\ outcome' = [outcome EXCEPT ![w] = "none"]
    /\ didCommit' = [didCommit EXCEPT ![w] = FALSE]
    /\ processed_messages' = [processed_messages EXCEPT ![w] = 0]
    /\ failed_messages' = [failed_messages EXCEPT ![w] = 0]
    /\ processed_count' = [processed_count EXCEPT ![w] = 0]
    /\ failed_count' = [failed_count EXCEPT ![w] = 0]
    /\ position' = [position EXCEPT ![w] = committed]
    /\ health' = [health EXCEPT ![w] = NoReport]

KillAndRestart(w) ==
    /\ pc[w] \notin {"idle", "stopped"}
    /\ Fails(TRUE)
    /\ NewProcess(w)
    /\ UNCHANGED << log, committed, deployment, api, services, chunker, process, owner, dbvars >>

\* A worker whose consumer loop ended with an exception (consumer.py:121-125,
\* worker.py:107-109) is started again.
Restart(w) ==
    /\ pc[w] = "stopped"
    /\ NewProcess(w)
    /\ UNCHANGED << log, committed, deployment, api, services, chunker, process, owner, dbvars, faults >>

\* The group rebalances: the partitions go to member w, which resumes from
\* the committed offsets while the previous owner may still be handling
\* the message it had fetched.
Rebalance(w) ==
    /\ owner # w
    /\ pc[w] = "idle"
    /\ Fails(TRUE)
    /\ owner' = w
    /\ position' = [position EXCEPT ![w] = committed]
    /\ UNCHANGED << log, committed, deployment, api, services, chunker, workers, pc, cur, disp, outcome,
                    didCommit, processed_messages, failed_messages, dbvars,
                    taskcounters >>

Next ==
    \/ \E j \in Jobs : CreateJobRow(j)
    \/ \E j \in Jobs : publish_job(j)
    \/ \E p \in ForeignPayloads : ForeignPublish(p)
    \/ \E w \in Workers, t \in ConsumedTopics : Fetch(w, t)
    \/ \E w \in Workers : InvalidToDlq(w)
    \/ \E w \in Workers : InvalidCommit(w)
    \/ \E w \in Workers : StartProcessing(w)
    \/ \E w \in Workers : generate_embedding(w)
    \/ \E w \in Workers : store_embedding(w)
    \/ \E w \in Workers : CompleteJob(w)
    \/ \E w \in Workers : FailJob(w)
    \/ \E w \in Workers : CommitProcessed(w)
    \/ \E w \in Workers : handle_processing_error(w)
    \/ \E w \in Workers : HandleCommit(w)
    \/ \E w \in Workers : KillAndRestart(w)
    \/ \E w \in Workers : Restart(w)

\* One worker process consumes the topics.
Spec == Init /\ [][Next]_vars

\* Two members of the consumer group and rebalances between them.
NextGroup ==
    \/ Next
    \/ \E w \in Workers : Rebalance(w)

SpecGroup == Init /\ [][NextGroup]_vars

\* One v2 worker in an environment where the only calls that fail are calls
\* of the embedding generator (transient connection or timeout errors,
\* which embed_text turns into an empty result, embedding_service.py:37-39).
OnlyEmbeddingCallsFail ==
    faults' # faults =>
        \E w \in Workers : pc[w] = "embed" /\ pc'[w] = "fail_embedding"

NextTransient == Next /\ OnlyEmbeddingCallsFail

SpecTransient == Init /\ [][NextTransient]_vars

\* One worker process of either generation consumes the ingestion topic.
NextWorkers ==
    \/ Next
    \/ \E w \in Workers : LegacyFetch(w)
    \/ \E w \in Workers : LegacyStart(w)
    \/ \E w \in Workers : LegacyEmbedAndStore(w)
    \/ \E w \in Workers : LegacyFinish(w)
    \/ \E w \in Workers : LegacyAutoCommit(w)

SpecWorkers == InitWorkers /\ [][NextWorkers]_vars

\* One upload request served by the API process.
NextUpload ==
    \/ UploadChunks
    \/ UploadStartProducer
    \/ UploadInsertJobs
    \/ UploadPublish
    \/ UploadStopProducer

SpecUpload == Init /\ [][NextUpload]_vars

\* A KafkaProducer object under any sequence of calls.
NextProducer ==
    \/ ClientStart
    \/ ClientStop
    \/ ClientPublish

SpecProducer == Init /\ [][NextProducer]_vars

\* Calls of the chunking strategies.
NextChunking ==
    \/ ChunkCall
    \/ FixedSizeWindow
    \/ FixedSizeReturn
    \/ SentenceAwareSentence
    \/ SentenceAwareReturn
    \/ SaveChunks

SpecChunking == Init /\ [][NextChunking]_vars

\* One worker process and its health monitor (worker.py:55-65).
NextHealth ==
    \/ Next
    \/ \E w \in Workers : HealthCheck(w)

SpecHealth == Init /\ [][NextHealth]_vars

\* The consumer loop of one worker process, which is not started again.
ConsumerLoop(w) ==
    \/ \E t \in ConsumedTopics : Fetch(w, t)
    \/ InvalidToDlq(w)
    \/ InvalidCommit(w)
    \/ StartProcessing(w)
    \/ generate_embedding(w)
    \/ store_embedding(w)
    \/ CompleteJob(w)
    \/ FailJob(w)
    \/ CommitProcessed(w)
    \/ handle_processing_error(w)
    \/ HandleCommit(w)

Producers ==
    \/ \E j \in Jobs : CreateJobRow(j)
    \/ \E j \in Jobs : publish_job(j)
    \/ \E p \in ForeignPayloads : ForeignPublish(p)

\* Worker processes from KafkaConsumer.start on.
NextStartup ==
    \/ Producers
    \/ \E w \in Workers : EnsureTopics(w)
    \/ \E w \in Workers : Subscribe(w)
    \/ \E w \in Workers : ConsumerLoop(w)

SpecStartup == InitStartup /\ [][NextStartup]_vars

\* A running worker process that receives SIGINT or SIGTERM.
NextShutdown ==
    \/ Producers
    \/ \E w \in Workers : ConsumerLoop(w)
    \/ \E w \in Workers : Signal(w)
    \/ \E w \in Workers : CancelConsumer(w)

SpecShutdown == Init /\ [][NextShutdown]_vars

\* The JSON objects among the payloads: the ones that can reach the
\* TaskProcessor, whose counters the health monitor reads.
MonitoredPayloads ==
    { p \in ForeignPayloads : p.shape = "object" } \cup { JobMessage(j) : j \in Jobs }

\* The messages a monitored worker is given: job messages of the upload
\* side (uploads.py:111-125, the row is pending) and objects of other
\* producers, MaxMonitored of them.
MonitoredPublish(m) ==
    /\ Len(log[TOPIC_INGESTION]) < MaxMonitored
    /\ m \in ForeignPayloads
          \/ \E j \in Jobs : m = JobMessage(j) /\ jobStatus[j] = "pending"
    /\ log' = [log EXCEPT ![TOPIC_INGESTION] = Append(@, m)]
    /\ UNCHANGED << committed, deployment, api, services, chunker, workers, owner, position,
                    pc, cur, disp, outcome, didCommit, processed_messages,
                    failed_messages, dbvars, taskcounters, faults >>

\* One worker process that is not started again, and its health monitor.
NextMonitor ==
    \/ \E j \in Jobs : CreateJobRow(j)
    \/ \E m \in MonitoredPayloads : MonitoredPublish(m)
    \/ \E w \in Workers : ConsumerLoop(w)
    \/ HealthCheck(owner)

SpecMonitor == Init /\ [][NextMonitor]_vars

\* The worker as IngestionWorker builds it: KafkaConsumer is made with a
\* group id and no topics (worker.py:49), so it subscribes to the default
\* [TOPIC_INGESTION] (consumer.py:29).
InitIngestionWorker ==
    /\ Init
    /\ topics = {TOPIC_INGESTION}

NextRetry ==
    \/ Producers
    \/ \E w \in Workers : ConsumerLoop(w)

\* The worker keeps running: the consumer loop of consumer.py:112-119 takes
\* its next step whenever it has one.
SpecRetry ==
    /\ InitIngestionWorker
    /\ [][NextRetry]_vars
    /\ \A w \in Workers : WF_vars(ConsumerLoop(w))

\* ------------------------------------------------------------------------
\* Properties
\* ------------------------------------------------------------------------
InTaskProcessor(w) ==
    pc[w] \in {"process", "embed", "store", "complete"} \cup FailPcs

Handling(w) == cur[w] # NoValue

RetryEntries == { log[TOPIC_RETRY][i] : i \in 1..Len(log[TOPIC_RETRY]) }
DlqEntries == { log[TOPIC_DLQ][i] : i \in 1..Len(log[TOPIC_DLQ]) }

\* C1: commit() succeeds for a message only after the processing function
\* returned, or the message was acknowledged on the retry topic, or it was
\* acknowledged on the DLQ topic.
C1_CommitOnlyAfterDisposition ==
    \A w \in Workers :
        didCommit[w] => disp[w] \in {"success", "retry", "dlq"}

\* C2: a message whose processing raises on every delivery is republished
\* to the retry topic with attempt 2 and with attempt 3 only, and its DLQ
\* entry carries dlq_reason and attempt 3.
C2_TwoRetriesThenDlqAtThree ==
    /\ \A m \in RetryEntries :
          m.content = "unsized" => m.attempt \in {2, 3}
    /\ \A e \in DlqEntries :
          e.content = "unsized" =>
              e.dlq_reason = "max_retries" /\ e.attempt = 3

\* C3: a delivery in which the TaskProcessor failed is not disposed of as a
\* success: when its offset is committed the message is on the retry topic
\* or on the DLQ.
C3_WorkerFailureIsRetried ==
    \A w \in Workers :
        (outcome[w] \in {"failed", "failed_unrecorded"} /\ didCommit[w])
            => disp[w] \in {"retry", "dlq"}

\* C4: an invalid payload is never passed to the processing function, and
\* once its offset is committed the DLQ holds an entry for it with
\* dlq_reason, dlq_timestamp and the raw payload.
C4_InvalidGoesToDlq ==
    \A w \in Workers :
        /\ InTaskProcessor(w) => cur[w].isdict /\ ~cur[w].invalid
        /\ (Handling(w) /\ cur[w].invalid /\ didCommit[w]) =>
              \E e \in DlqEntries :
                  /\ e.job = cur[w].job /\ e.keys = cur[w].keys
                  /\ e.dlq_reason = "validation"
                  /\ e.dlq_timestamp /\ e.raw

\* C5: a malformed or incomplete payload, a JSON value that is not an
\* object included, is never republished to the retry topic and no exception
\* leaves the consumer loop while it is handled.
C5_MalformedNeverRetriedNorRaised ==
    \A w \in Workers :
        (Handling(w) /\ (cur[w].invalid \/ ~cur[w].isdict))
            => pc[w] # "stopped" /\ disp[w] # "retry"

\* C6: no failure while a message is handled (processing raises, the retry
\* or DLQ publish fails, the commit fails) ends the consume loop.
C6_LoopSurvivesMessageFailures ==
    \A w \in Workers :
        (Handling(w) /\ cur[w].isdict) => pc[w] # "stopped"

\* C7: a job row that is completed or failed keeps that status.
C7_TerminalStatusIsFinal ==
    [][\A j \in Jobs :
          jobStatus[j] \in {"completed", "failed"} => jobStatus'[j] = jobStatus[j]]_vars

\* C8: a job row that has left pending never returns to pending.
C8_NeverBackToPending ==
    [][\A j \in Jobs :
          jobStatus[j] \notin {"absent", "pending"} => jobStatus'[j] # "pending"]_vars

\* a second delivery of a job's message is being processed after an earlier
\* delivery had completed the job
C8_Witness ==
    \E w \in Workers :
        /\ pc[w] = "embed"
        /\ jobStatus[cur[w].job] = "processing"
        /\ embedding_id[cur[w].job]

\* C9: a chunk's embedding_id is set if and only if its job is completed.
C9_EmbeddingIdIffCompleted ==
    \A j \in Jobs : embedding_id[j] <=> jobStatus[j] = "completed"

\* C10: a delivery marks the job failed only when the message-level retries
\* are exhausted.
C10_FailedOnlyWhenExhausted ==
    \A w \in Workers :
        outcome[w] = "failed" => AttemptOf(cur[w]) >= MaxRetryAttempt

\* C11: when a delivery of a job's message completes with every call
\* succeeding, after an earlier delivery of it had completed and set the
\* chunk's embedding_id, the job is completed, the embedding_id is still set
\* and the store holds exactly one vector under the chunk's id.
C11_RedeliveryIsIdempotent ==
    [][\A w \in Workers :
          (/\ pc[w] = "complete"
           /\ pc'[w] # "complete"
           /\ embedding_id[cur[w].job]
           /\ faults' = faults)
          => /\ outcome'[w] = "completed"
             /\ jobStatus'[cur[w].job] = "completed"
             /\ embedding_id'[cur[w].job]
             /\ Len(SelectSeq(vectors', LAMBDA e : e.id = VectorId(cur[w]))) = 1]_vars

\* the second delivery, after a crash before the commit of the first, is
\* about to complete: the first had set the embedding_id and nothing else
\* failed
C11_Witness ==
    \E w \in Workers :
        /\ pc[w] = "complete"
        /\ embedding_id[cur[w].job]
        /\ jobStatus[cur[w].job] = "processing"
        /\ committed[TOPIC_INGESTION] = 0
        /\ log[TOPIC_RETRY] = << >>
        /\ faults = 1

\* a delivery has set its job to processing and has not yet written the
\* terminal status
BetweenProcessingAndTerminal(w) == pc[w] \in {"embed", "store", "complete"}

\* C12: at no time are two deliveries of the same job both past the update
\* to processing and before their terminal status update.
C12_NoDoubleProcessing ==
    \A w1 \in Workers, w2 \in Workers :
        (/\ w1 # w2
         /\ BetweenProcessingAndTerminal(w1)
         /\ BetweenProcessingAndTerminal(w2))
        => cur[w1].job # cur[w2].job

\* C13: the committed offset never moves past a message that is still being
\* handled, a worker that is not handling a message stands at the committed
\* offsets (so a restart delivers the uncommitted message again), and the
\* offset of a valid message is committed only after the processing function
\* was called with it.
C13_AtLeastOnce ==
    \A w \in Workers :
        owner = w =>
            /\ pc[w] = "idle" =>
                  \A t \in topics : position[w][t] = committed[t]
            /\ pc[w] # "idle" =>
                  \E t \in topics :
                      /\ committed[t] < Len(log[t])
                      /\ position[w][t] = committed[t] + 1
                      /\ deserialize_message(log[t][committed[t] + 1]) = cur[w]
                      /\ \A u \in topics \ {t} : position[w][u] = committed[u]
            /\ (didCommit[w] /\ cur[w].isdict /\ ~cur[w].invalid) =>
                  outcome[w] # "none"

\* a message is in hand again after the worker was killed while an earlier
\* delivery of it was being processed
C13_Witness ==
    \E w \in Workers :
        /\ pc[w] = "process"
        /\ jobStatus[cur[w].job] = "processing"
        /\ committed[TOPIC_INGESTION] = 0
        /\ log[TOPIC_RETRY] = << >>

\* the store holds a vector for the chunk of job j under the chunk's id, with
\* tenant_id, document_id, chunk_id and job_id in its metadata
VectorStoredFor(j) ==
    \E i \in 1..Len(vectors) :
        /\ vectors[i].id = << "chunk_id", j >>
        /\ {"tenant_id", "document_id", "chunk_id", "job_id"}
               \subseteq vectors[i].metadata

\* C14: the embedding generator is called for a job whose row is processing;
\* a chunk's embedding_id is set only when its vector is already stored under
\* the chunk id with its metadata; a job becomes completed only when the
\* vector is already stored.
C14_StepsInOrder ==
    /\ [](\A w \in Workers :
             pc[w] = "embed" => jobStatus[cur[w].job] = "processing")
    /\ [][\A j \in Jobs :
             /\ (embedding_id'[j] /\ ~embedding_id[j]) => VectorStoredFor(j)
             /\ (jobStatus'[j] = "completed" /\ jobStatus[j] # "completed")
                   => VectorStoredFor(j) /\ jobStatus[j] = "processing"]_vars

\* a delivery went through all its steps: the job is completed, the chunk has
\* its embedding_id and the vector is stored
C14_Witness ==
    \E w \in Workers :
        /\ outcome[w] = "completed"
        /\ jobStatus[cur[w].job] = "completed"
        /\ embedding_id[cur[w].job]
        /\ VectorStoredFor(cur[w].job)

\* C15: when the embedding generator fails or returns an empty vector the
\* delivery takes the failure path, and from then on that delivery stores
\* no vector, sets no embedding_id and does not mark the job completed.
C15_EmptyEmbeddingIsFailure ==
    [][\A w \in Workers :
          /\ (pc[w] = "embed" /\ faults' # faults /\ pc'[w] # "idle")
                => pc'[w] = "fail_embedding"
          /\ (\/ pc'[w] = "fail_embedding"
              \/ pc[w] = "fail_embedding"
              \/ outcome[w] \in {"failed", "failed_unrecorded"})
                => /\ vectors' = vectors
                   /\ embedding_id' = embedding_id
                   /\ \A j \in Jobs : jobStatus'[j] = "completed"
                                          => jobStatus[j] = "completed"]_vars

\* a delivery whose embedding came back empty has been recorded as failed:
\* nothing is stored for the chunk
C15_Witness ==
    \E w \in Workers :
        /\ pc[w] = "commit"
        /\ outcome[w] = "failed"
        /\ jobStatus[cur[w].job] = "failed"
        /\ jobError[cur[w].job] = EmptyEmbeddingError
        /\ vectors = << >>
        /\ ~embedding_id[cur[w].job]

\* C16: a completed job has no error_message, and a stored error_message
\* is at most 500 characters long.
C16_ErrorClearedAndTruncated ==
    \A j \in Jobs :
        /\ jobStatus[j] = "completed" => jobError[j] = 0
        /\ jobStatus[j] = "failed" => jobError[j] <= MaxErrorLength

\* the message the upload published for a job
IsJobMessage(v) == v = deserialize_message(JobMessage(v.job))

\* C17: when the only failures are transient failures of the embedding call
\* (at most MaxFaults of them), a chunk's message that has been disposed of
\* leaves its job completed, with no DLQ entry and no message-level retry.
C17_TransientEmbeddingErrorsAbsorbed ==
    \A w \in Workers :
        (didCommit[w] /\ IsJobMessage(cur[w]))
            => /\ jobStatus[cur[w].job] = "completed"
               /\ \A e \in DlqEntries : e.job # cur[w].job
               /\ \A m \in RetryEntries : m.job # cur[w].job

\* the messages on the ingestion topic that carry the job of chunk k
MessagesOf(k) ==
    { i \in 1..Len(log[TOPIC_INGESTION]) : log[TOPIC_INGESTION][i].job = k }

\* C18: when publishing fails for some chunk of the request, the request
\* reports an error and no message of the document's batch is on the
\* ingestion topic.
C18_FailedBatchNotQueued ==
    (upload.pc \in {"stop", "done"} /\ producer.last.result = "raised")
        => /\ upload.response = "500"
           /\ \A k \in 1..upload.chunks : MessagesOf(k) = {}

\* C19: after upload_file returned successfully every chunk has one pending
\* job row and exactly one message on the ingestion topic, with attempt 1,
\* and there are as many messages as chunks.
C19_OneRowOneMessagePerChunk ==
    (upload.pc = "done" /\ upload.response = "200")
        => /\ \A k \in 1..upload.chunks :
                 /\ jobStatus[k] = "pending"
                 /\ Cardinality(MessagesOf(k)) = 1
                 /\ \A i \in MessagesOf(k) :
                        log[TOPIC_INGESTION][i] = JobMessage(k)
           /\ Len(log[TOPIC_INGESTION]) = upload.chunks

\* C20: publish_job returns only after the broker acknowledged the message;
\* it makes at most MaxPublishAttempts sends and raises when the last of
\* them failed; on a producer that is not connected it raises without
\* sending anything.
C20_PublishJobContract ==
    LET o == producer.last IN
        /\ o.result = "returned" => o.acked /\ o.copies >= 1
        /\ o.attempts <= MaxPublishAttempts
        /\ (o.result # "none" /\ ~o.acked) => o.result = "raised"
        /\ (o.result # "none" /\ ~o.connected)
              => o.result = "raised" /\ o.attempts = 0 /\ o.copies = 0

\* a call on a started producer gave up after its last attempt, no send
\* having reached the topic
C20_Witness ==
    /\ producer.last = Call("raised", MaxPublishAttempts, FALSE, 0, TRUE)
    /\ producer._is_connected
    /\ log[TOPIC_INGESTION] = << >>

\* FixedSizeChunking.chunk has returned, called with chunk_size > overlap >= 0
FixedSizeReturned ==
    /\ chunker.pc \in {"returned", "saved"}
    /\ chunker.strategy = "fixed_size"
    /\ chunker.chunk_size > chunker.overlap
    /\ chunker.overlap >= 0

\* C21: for chunk_size > overlap >= 0 the windows of FixedSizeChunking.chunk
\* are consecutive and cover [0, len(text)), the k-th starts at
\* k * (chunk_size - overlap), and every window but the last overlaps the
\* next one by exactly overlap characters.
C21_FixedSizeWindows ==
    FixedSizeReturned =>
        LET c == chunker.chunks
            n == Len(c)
            len == TextLen(chunker.text)
        IN  /\ n = 0 <=> len = 0
            /\ n > 0 => c[1].start_char = 0 /\ c[n].end_char = len
            /\ \A k \in 1..n :
                   c[k].start_char = (k - 1) * (chunker.chunk_size - chunker.overlap)
            /\ \A k \in 1..(n - 1) :
                   /\ c[k + 1].start_char <= c[k].end_char
                   /\ c[k].end_char - c[k + 1].start_char = chunker.overlap

\* C22: FixedSizeChunking.chunk called with overlap >= chunk_size on a
\* non-empty text fails at once with a configuration error: it never emits
\* a window, so it never goes round its loop without advancing.
C22_OverlapNotBelowSizeFailsFast ==
    (/\ chunker.strategy = "fixed_size"
     /\ chunker.pc # "idle"
     /\ chunker.overlap >= chunker.chunk_size
     /\ TextLen(chunker.text) > 0)
        => chunker.pc = "error" /\ chunker.chunks = << >>

\* C23: the chunk rows create_chunks persists for a document have the
\* chunk_index values 0..n-1 in the order the chunks were emitted, and
\* every row has 0 <= start_char <= end_char <= len(document content).
C23_ChunkRowsIndexedAndInBounds ==
    chunker.pc = "saved" =>
        LET r == chunker.rows
        IN  /\ Len(r) = Len(chunker.chunks)
            /\ \A i \in 1..Len(r) :
                   /\ r[i].chunk_index = i - 1
                   /\ r[i].start_char = chunker.chunks[i].start_char
                   /\ r[i].end_char = chunker.chunks[i].end_char
                   /\ 0 <= r[i].start_char
                   /\ r[i].start_char <= r[i].end_char
                   /\ r[i].end_char <= TextLen(chunker.text)

\* 'Hello world. This is chunk two.'
HelloWorldText == Text(0, << 12, 18 >>, 1, 0)

\* C24: sentence-aware chunking flushes its buffer exactly when the buffer
\* is not empty and would be longer than chunk_size with the next sentence
\* appended; each chunk starts at most overlap characters before the end
\* of the chunk before it; 'Hello world. This is chunk two.' with
\* chunk_size 20 and overlap 5 gives exactly two chunks.
C24_SentenceAwareFlush ==
    /\ [](chunker.strategy = "sentence_aware" =>
            LET c == chunker.chunks
            IN  /\ \A k \in 1..(Len(c) - 1) :
                       /\ c[k + 1].start_char <= c[k].end_char
                       /\ c[k + 1].start_char >= c[k].end_char - chunker.overlap
                /\ (/\ chunker.pc = "returned"
                     /\ chunker.text = HelloWorldText
                     /\ chunker.chunk_size = 20
                     /\ chunker.overlap = 5) => Len(c) = 2)
    /\ [][(chunker.pc = "sentence_aware" /\ chunker'.next = chunker.next + 1) =>
            LET sent_len == tokenize(chunker.text, chunker.tokenizer)[chunker.next]
                appended == chunker.current_chunk + 1 + sent_len
            IN  chunker'.chunks # chunker.chunks
                    <=> (chunker.current_chunk > 0 /\ appended > chunker.chunk_size)]_vars

\* C25: an unknown chunking strategy is rejected with an error raised to
\* the caller, and no chunk rows, no embedding jobs and no messages are
\* created for the document.
C25_UnknownStrategyRejected ==
    (upload.pc # "idle" /\ upload.strategy \notin strategies)
        => /\ upload.pc = "done"
           /\ upload.response = "500"
           /\ upload.chunks = 0
           /\ \A k \in Chunks : jobStatus[k] = "absent"
           /\ log[TOPIC_INGESTION] = << >>
           /\ producer = [_is_connected |-> FALSE, last |-> NoCall]

\* the request for a document with an unregistered strategy has ended
C25_Witness ==
    /\ upload.strategy = "other"
    /\ upload.pc = "done"
    /\ upload.response = "500"

\* C26: check_health reports degraded exactly when the failed jobs are more
\* than half of the processed and failed jobs counted, that is when
\* failed_jobs > processed_jobs.
C26_DegradedAboveHalfFailed ==
    \A w \in Workers :
        health[w].status # "none" =>
            (health[w].status = "degraded"
                <=> 2 * health[w].failed_jobs >
                        health[w].processed_jobs + health[w].failed_jobs)

\* C27: after the termination signal the consumer loop pulls no further
\* message, and the consumer is closed only when the message in flight at
\* the signal has its disposition and its offset commit.
C27_GracefulShutdown ==
    /\ [](\A w \in Workers :
            process[w].consumer = "closed" => (cur[w] = NoValue \/ didCommit[w]))
    /\ [][\A w \in Workers :
            (process[w]._shutdown_requested /\ pc[w] = "idle")
                => pc'[w] \in {"idle", "exited"}]_vars

InDlq(j) ==
    \E d \in DlqEntries : d.job = j

\* C29: a message republished to the retry topic is eventually consumed
\* again by the worker's consumer, and its job eventually is completed or
\* has a DLQ entry.
C29_RetriedMessagesConsumedAgain ==
    /\ (Len(log[TOPIC_RETRY]) > 0) ~> (\E w \in Workers : position[w][TOPIC_RETRY] > 0)
    /\ \A j \in Jobs :
          (\E i \in 1..Len(log[TOPIC_RETRY]) : log[TOPIC_RETRY][i].job = j)
              ~> (jobStatus[j] = "completed" \/ InDlq(j))

\* C30: a message whose offset is committed has moved its job out of
\* pending, or it is on the retry topic or has a DLQ entry: a message with
\* the consumer's required keys and an empty chunk_content, or without
\* document_id, is not committed as a success with its job left pending.
C30_CommittedMessageMovesItsJob ==
    \A w \in Workers :
        (Handling(w) /\ didCommit[w] /\ cur[w].job \in Jobs
            /\ jobStatus[cur[w].job] = "pending")
          => disp[w] \in {"retry", "dlq"}

\* the messages worker w has taken from its topics
Consumed(w) == position[w][TOPIC_INGESTION] + position[w][TOPIC_RETRY]

\* C36: every consumed message adds exactly one to exactly one of
\* _processed_messages and _failed_messages: total_messages never exceeds
\* the number of messages consumed, and equals it between two messages.
C36_OneCountPerMessage ==
    \A w \in Workers :
        /\ processed_messages[w] + failed_messages[w] <= Consumed(w)
        /\ pc[w] = "idle" => processed_messages[w] + failed_messages[w] = Consumed(w)

\* C32: the message republished to the retry topic has the payload of the
\* consumed message (its keys, chunk_content and job), an attempt exactly
\* one above the consumed message's and last_error set; the attempt never
\* falls or starts again.
C32_RepublishKeepsPayloadAndCounts ==
    \A w \in Workers :
        (pc[w] = "handle_commit" /\ disp[w] = "retry")
          => /\ Len(log[TOPIC_RETRY]) > 0
             /\ LET m == log[TOPIC_RETRY][Len(log[TOPIC_RETRY])]
                IN  /\ m.shape = "object"
                    /\ m.keys = cur[w].keys
                    /\ m.content = cur[w].content
                    /\ m.job = cur[w].job
                    /\ m.attempt = AttemptOf(cur[w]) + 1
                    /\ m.attempt > cur[w].attempt
                    /\ m.last_error

\* a message taken from the retry topic with attempt 2 was republished with
\* attempt 3
C32_Witness ==
    \E w \in Workers :
        /\ pc[w] = "handle_commit" /\ disp[w] = "retry"
        /\ cur[w].attempt = 2
        /\ Len(log[TOPIC_RETRY]) = 2
        /\ log[TOPIC_RETRY][2].attempt = 3

\* C37: after a degraded report every later report of check_health is
\* degraded or unhealthy, whatever the counters are then; and a health check
\* changes neither the consumer's state nor any counter.
C37_DegradedIsSticky ==
    [][\A w \in Workers :
          /\ (health[w].status = "degraded" \/ ~health[w]._is_healthy)
                => health'[w].status \in {"degraded", "unhealthy"}
          /\ health'[w] # health[w]
                => /\ process' = process /\ pc' = pc /\ position' = position
                   /\ processed_messages' = processed_messages
                   /\ failed_messages' = failed_messages
                   /\ processed_count' = processed_count
                   /\ failed_count' = failed_count]_vars

\* a report made after a degraded one, with counters that are not above
\* the threshold any more
C37_Witness ==
    \E w \in Workers :
        /\ health[w].status = "unhealthy"
        /\ 2 * health[w].failed_jobs <= health[w].processed_jobs

\* C38: every chunk a strategy returns has a text as long as the slice
\* text[start_char:end_char] it is said to be, and its chunk_size is that
\* length.
C38_ChunkIsItsSlice ==
    chunker.pc = "returned" =>
        \A i \in 1..Len(chunker.chunks) :
            LET c == chunker.chunks[i]
            IN  /\ c.text = c.end_char - c.start_char
                /\ c.chunk_size = c.end_char - c.start_char
                /\ c.chunk_size = c.text

\* C33: the job row of a chunk is committed before a message for it is
\* published: no message is on the ingestion topic, for a worker to
\* consume, whose job row does not exist, and none is there before the
\* request has committed its rows.
C33_RowsCommittedBeforePublish ==
    /\ \A i \in 1..Len(log[TOPIC_INGESTION]) :
          jobStatus[log[TOPIC_INGESTION][i].job] # "absent"
    /\ upload.pc \in {"idle", "start", "insert"} => log[TOPIC_INGESTION] = << >>

\* the request is publishing: the first chunk's message is on the topic,
\* the second chunk's is not yet, and both rows are pending
C33_Witness ==
    /\ upload.pc = "publish"
    /\ upload.chunks = 2
    /\ upload.next = 2
    /\ MessagesOf(1) # {}
    /\ MessagesOf(2) = {}
    /\ jobStatus[1] = "pending" /\ jobStatus[2] = "pending"

\* ------------------------------------------------------------------------
\* The rate limiter (app/core/rate_limiter.py)
\* ------------------------------------------------------------------------
\* everything but the rate limiter
nolimiter == << noservices, search, document >>

\* rate_limiter.py:32  zremrangebyscore(key, 0, window_start): the members
\* whose score lies in [0, window_start] leave the set
zremrangebyscore(z, lo, hi) == { m \in z : ~(lo <= m /\ m <= hi) }

\* rate_limiter.py:33  zadd(key, {str(current_time): current_time}): the
\* member is the text of the clock second and its score is that second; a
\* member that is in the set already is not added again
zadd(z, member) == z \cup { member }

\* rate_limiter.py:34  zcard(key)
zcard(z) == Cardinality(z)

\* time passes: int(time.time()) is one second later
Tick ==
    /\ limiter.now < MaxClock
    /\ limiter' = [limiter EXCEPT !.now = @ + 1]
    /\ UNCHANGED nolimiter

\* rate_limiter.py:16-42  sliding_window_rate_limit.  The expiry of the key
\* (line 35) removes a set whose members are all older than the window, which
\* line 32 of the next call removes as well.
sliding_window_rate_limit(tenant_id, action, max_requests, window_seconds) ==
    LET key == RateLimitKey(tenant_id, action)
        current_time == limiter.now
        window_start == current_time - window_seconds
        z == zadd(zremrangebyscore(limiter.zset[key], 0, window_start),
                  current_time)
        current_count == zcard(z)
    IN  /\ limiter.arrivals < MaxArrivals
        /\ limiter' =
              [limiter EXCEPT
                 !.arrivals = @ + 1,
                 !.zset[key] = z,
                 !.admitted[key][current_time] =
                     IF current_count > max_requests THEN @ ELSE @ + 1,
                 !.last = IF current_count > max_requests THEN "429" ELSE "ok"]
        /\ UNCHANGED nolimiter

\* uploads.py:28  the dependency of the upload route, its window in the
\* seconds of the model
RateLimitedRequest(tenant_id, action) ==
    sliding_window_rate_limit(tenant_id, action, UPLOADS_PER_MINUTE,
                              WindowSeconds)

NextLimiter ==
    \/ Tick
    \/ \E t \in Tenants, a \in LimitedActions : RateLimitedRequest(t, a)

SpecLimiter == Init /\ [][NextLimiter]_vars

\* the requests of a key admitted in the window of window_seconds that
\* ends at second t
RECURSIVE AdmittedInWindow(_, _, _)
AdmittedInWindow(key, t, n) ==
    IF n = 0 \/ t < 0 THEN 0
    ELSE limiter.admitted[key][t] + AdmittedInWindow(key, t - 1, n - 1)

\* C35: for any tenant and action, at most max_requests of the requests that
\* arrive within any window of window_seconds are admitted, also when
\* several of them arrive within the same clock second
C35_AtMostMaxRequestsPerWindow ==
    \A key \in RateLimitKeys : \A t \in 0..MaxClock :
        AdmittedInWindow(key, t, WindowSeconds) <= UPLOADS_PER_MINUTE

\* ------------------------------------------------------------------------
\* Search (app/services/search_service.py, app/api/v1/routes/search.py)
\* ------------------------------------------------------------------------
\* the rows of document_chunks: two chunks of tenant A, one of tenant B
ChunkRows ==
    { [id |-> "c1", tenant_id |-> "A", document_id |-> "d1"],
      [id |-> "c2", tenant_id |-> "A", document_id |-> "d2"],
      [id |-> "c3", tenant_id |-> "B", document_id |-> "d3"] }

\* tasks.py:158-176  the entry the worker upserts for a chunk: its id and
\* the metadata that can be filtered on (job_id, one per chunk, left out)
VectorEntry(c) ==
    [id |-> << c.tenant_id, c.id >>,
     metadata |-> [tenant_id |-> c.tenant_id, document_id |-> c.document_id,
                   chunk_id |-> c.id]]

\* search.py:24  filters: Optional[Dict[str, Any]]: the maps a caller can
\* send over the keys the entries carry; the empty map stands for None too
FilterKeys == {"tenant_id", "document_id"}

FilterValues(k) ==
    IF k = "tenant_id" THEN Tenants
    ELSE { c.document_id : c \in ChunkRows }

SearchFilters ==
    UNION { { f \in [K -> UNION { FilterValues(k) : k \in FilterKeys }] :
                \A k \in K : f[k] \in FilterValues(k) } :
            K \in SUBSET FilterKeys }

\* search_service.py:238-240  search_filter = {"tenant_id": tenant_id};
\* if filters: search_filter.update(filters): a key of filters replaces the
\* entry of the same key
build_search_filter(tenant_id, filters) ==
    [k \in DOMAIN filters \cup {"tenant_id"} |->
        IF k \in DOMAIN filters THEN filters[k] ELSE tenant_id]

\* VectorStore.query(vector, topK, filter): the entries whose metadata
\* agrees with the filter on every key of the filter
query_vectors(index, filter) ==
    { e \in index : \A k \in DOMAIN filter : e.metadata[k] = filter[k] }

nosearch == << noservices, limiter, document >>

\* a worker has embedded chunk c (tasks.py:156-185)
IndexChunk(c) ==
    /\ VectorEntry(c) \notin search.index
    /\ search' = [search EXCEPT !.index = @ \cup { VectorEntry(c) }]
    /\ UNCHANGED nosearch

\* search.py:75-95, search_service.py:222-240  chunk_search calls
\* search_chunks for the tenant of the API key with the filters of the body
search_chunks(tenant_id, filters) ==
    /\ search.pc = "idle"
    /\ search' = [search EXCEPT
                     !.pc = "query",
                     !.tenant_id = tenant_id,
                     !.search_filter = build_search_filter(tenant_id, filters),
                     !.matches = {},
                     !.results = {}]
    /\ UNCHANGED nosearch

\* search_service.py:244-248  the vector store answers the query
QueryVectors ==
    /\ search.pc = "query"
    /\ search' = [search EXCEPT
                     !.pc = "fetch",
                     !.matches = query_vectors(search.index,
                                               search.search_filter)]
    /\ UNCHANGED nosearch

\* search_service.py:253-330  the matches that reach min_score (any of
\* them: the scores are the store's), their chunk ids taken from the
\* vector ids, and the rows of those ids, selected by Chunk.id alone
FetchChunks(kept) ==
    /\ search.pc = "fetch"
    /\ kept \subseteq search.matches
    /\ LET chunk_ids == { e.id[2] : e \in kept }
       IN  search' = [search EXCEPT
                        !.pc = "returned",
                        !.results = { c \in ChunkRows : c.id \in chunk_ids }]
    /\ UNCHANGED nosearch

\* search_service.py:337-340  embed_text, query_vectors or the select
\* raises: the error is logged and raised again, nothing is returned
SearchRaises ==
    /\ search.pc \in {"query", "fetch"}
    /\ search' = [search EXCEPT !.pc = "failed", !.matches = {}]
    /\ UNCHANGED nosearch

\* the response has been sent; the next request can come
SearchReturn ==
    /\ search.pc \in {"returned", "failed"}
    /\ search' = [search EXCEPT !.pc = "idle"]
    /\ UNCHANGED nosearch

NextSearch ==
    \/ \E c \in ChunkRows : IndexChunk(c)
    \/ \E t \in Tenants, f \in SearchFilters : search_chunks(t, f)
    \/ QueryVectors
    \/ \E kept \in SUBSET { VectorEntry(c) : c \in ChunkRows } :
           FetchChunks(kept)
    \/ SearchRaises
    \/ SearchReturn

SpecSearch == Init /\ [][NextSearch]_vars

\* C31: search_chunks called for tenant A queries the vector store with a
\* filter whose tenant_id is A and returns only chunks owned by A, whatever
\* the caller-supplied filters map holds (a tenant_id key included)
C31_SearchIsTenantScoped ==
    /\ search.pc \in {"query", "fetch", "returned"}
          => search.search_filter["tenant_id"] = search.tenant_id
    /\ search.pc = "returned"
          => \A c \in search.results : c.tenant_id = search.tenant_id

\* ------------------------------------------------------------------------
\* update_document (app/api/v1/routes/documents.py)
\* ------------------------------------------------------------------------
\* the chunk ids of the previous version of the document
OldChunks == 1..MaxOldChunks

\* chunking_service.py:52-64  get_document_chunks: the rows of the document
\* that the session of the request sees
get_document_chunks(rows) == rows

\* the delete-vector call of the vector store: the vector keyed by the
\* chunk id leaves the index
delete_document_vector(index, chunk_id) == index \ { chunk_id }

\* documents.py:98-101  the calls of the loop that did not raise
RECURSIVE delete_vectors(_, _)
delete_vectors(index, chunks) ==
    IF chunks = {} THEN index
    ELSE LET chunk == CHOOSE c \in chunks : TRUE
         IN  delete_vectors(delete_document_vector(index, chunk),
                            chunks \ { chunk })

\* documents.py:61-86  the document is the tenant's, the file is stored and
\* read.  Its previous version has the chunks `old`, of which `embedded`
\* have their vector in the store.  404 for a document that is not the
\* tenant's, 400 for a file that cannot be read.
UpdateRequest(old, embedded) ==
    /\ document.pc = "idle"
    /\ upload.pc = "idle"
    /\ old # {}
    /\ embedded \subseteq old
    /\ \E code \in {"ok", "404", "400"} :
          IF code = "ok"
          THEN document' = [pc |-> "delete_rows", rows |-> old,
                            index |-> embedded, old |-> old, calls |-> {},
                            response |-> "none"]
          ELSE document' = [NoDocument EXCEPT !.pc = "done",
                                              !.response = code]
    /\ UNCHANGED << noservices, limiter, search >>

\* documents.py:88-94  delete(Chunk) of the document, executed in the
\* session of the request
UpdateDeleteRows ==
    /\ document.pc = "delete_rows"
    /\ document' = [document EXCEPT !.pc = "delete_vectors", !.rows = {}]
    /\ UNCHANGED << noservices, limiter, search >>

\* documents.py:96-103  for each chunk that get_document_chunks returns in
\* the same session, delete_document_vector; a call that raises (those of
\* `failed`) is logged and the loop goes on
UpdateDeleteVectors ==
    /\ document.pc = "delete_vectors"
    /\ LET chunks == get_document_chunks(document.rows)
       IN  \E failed \in SUBSET chunks :
              document' =
                [document EXCEPT
                   !.pc = "commit",
                   !.calls = @ \cup chunks,
                   !.index = delete_vectors(@, chunks \ failed)]
    /\ UNCHANGED << noservices, limiter, search >>

\* documents.py:105-115  the second delete and the commit; a commit that
\* raises ends the request with status 500
UpdateCommit ==
    /\ document.pc = "commit"
    /\ \E ok \in BOOLEAN :
          document' =
            IF ok THEN [document EXCEPT !.pc = "chunks", !.rows = {}]
            ELSE [document EXCEPT !.pc = "done", !.response = "500"]
    /\ UNCHANGED << noservices, limiter, search >>

\* documents.py:117-133  create_chunks with settings.CHUNKING_STRATEGY and
\* the select of the new chunks; 137-189 then queue their jobs by the steps
\* of the upload
UpdateCreateChunks ==
    /\ document.pc = "chunks"
    /\ \E name \in strategies \cup {"other"}, n \in Chunks :
          IF chunk_document(name).raises
          THEN /\ document' = [document EXCEPT !.pc = "done",
                                                !.response = "500"]
               /\ UNCHANGED upload
          ELSE /\ document' = [document EXCEPT !.pc = "queue"]
               /\ upload' = [upload EXCEPT !.pc = "start", !.strategy = name,
                                            !.chunks = n]
    /\ UNCHANGED << log, jobStatus, producer, chunker, committed, deployment,
                    owner, position, pc, cur, disp, outcome, didCommit,
                    processed_messages, failed_messages, jobError,
                    embedding_id, vectors, processed_count, failed_count,
                    faults, workers, limiter, search >>

\* One update request served by the API process.
NextUpdate ==
    \/ \E old \in SUBSET OldChunks, embedded \in SUBSET OldChunks :
           UpdateRequest(old, embedded)
    \/ UpdateDeleteRows
    \/ UpdateDeleteVectors
    \/ UpdateCommit
    \/ UpdateCreateChunks
    \/ UploadStartProducer
    \/ UploadInsertJobs
    \/ UploadPublish
    \/ UploadStopProducer

SpecUpdate == Init /\ [][NextUpdate]_vars

\* update_document has answered 200
UpdateCompleted ==
    document.pc = "queue" /\ upload.pc = "done" /\ upload.response = "200"

\* C34: the delete-vector call is issued for every old chunk before the old
\* chunk rows are removed, and after update_document completes the vector
\* store holds no vector keyed by a chunk id of the previous version
C34_OldVectorsDeleted ==
    /\ document.pc \in {"delete_vectors", "commit", "chunks", "queue"}
          /\ document.rows = {}
          => document.old \subseteq document.calls
    /\ UpdateCompleted => document.index \cap document.old = {}


====
